---- MODULE Spec2Model ----
(***************************************************************************)
(* InkSync collaborative canvas: the server's validation predicate, the    *)
(* per-room DrawingStateManager (operations, undoStack, operationIndex),   *)
(* the Socket.io handlers of server.js and the event handlers of the       *)
(* client's WebSocketManager.                                              *)
(***************************************************************************)
EXTENDS Integers, Sequences, FiniteSets

VARIABLES
  roomStates,        \* DrawingStateManager.roomStates: roomId -> room state
  rooms,             \* RoomManager.rooms: roomId -> (userId -> user record)
  socketRooms,       \* per socket: the rooms it joined, in join order (socket.rooms minus its own id)
  connected,         \* per socket: socket.connected, FALSE from its disconnect on
  inbox,             \* per socket: events the server emitted to it, not yet handled by the client
  wsOperations,      \* per client: WebSocketManager.operations
  wsOperationIndex,  \* per client: WebSocketManager.operationIndex (id -> operation)
  nextId,            \* number of operation ids the server has generated
  last,              \* the handler or ledger call that ran last, and what it returned
  cand,              \* the candidate handed to validateDrawingData
  verdict,           \* what validateDrawingData did with cand
  isDrawing,         \* main.js: let isDrawing, of the one browser tab followed pointer by pointer
  canvasManager,     \* that tab's CanvasManager: isDrawing and currentPath
  wsManager,         \* that tab's WebSocketManager: the id of its socket and connected
  stroke             \* history of the tab's current stroke: dropped, the tab saw its
                     \* connection go since the stroke began; startId, the ids generated
                     \* when it began; watchers, the other members of its room then

vars == <<roomStates, rooms, socketRooms, connected, inbox, wsOperations,
          wsOperationIndex, nextId, last, cand, verdict,
          isDrawing, canvasManager, wsManager, stroke>>

serverVars == <<roomStates, rooms, socketRooms, connected, nextId>>
clientVars == <<wsOperations, wsOperationIndex>>
validateVars == <<cand, verdict>>
tabVars == <<isDrawing, canvasManager, wsManager, stroke>>

----------------------------------------------------------------------------
(* Bounds of the model *)

MaxOps == 2
MaxInbox == 1
MaxLedgerOps == 3

Sockets == {"s1", "s2"}
DefaultRoom == "default-room"
Rooms == {DefaultRoom, "room-b"}

----------------------------------------------------------------------------
(* JavaScript values, as far as validateDrawingData looks at them *)

Undefined == [type |-> "undefined", kind |-> "", val |-> 0, chars |-> <<>>]
Null == [type |-> "object", kind |-> "null", val |-> 0, chars |-> <<>>]
Num(n) == [type |-> "number", kind |-> "finite", val |-> n, chars |-> <<>>]
NaN == [type |-> "number", kind |-> "NaN", val |-> 0, chars |-> <<>>]
Infinity == [type |-> "number", kind |-> "Infinity", val |-> 0, chars |-> <<>>]
NegInfinity == [type |-> "number", kind |-> "-Infinity", val |-> 0, chars |-> <<>>]
Str(cs) == [type |-> "string", kind |-> "", val |-> 0, chars |-> cs]

\* v < n and v > n for a value v of type number and an integer n, as IEEE
\* comparison decides them: every comparison with NaN is false
NumLess(v, n) ==
  CASE v.kind = "finite" -> v.val < n
    [] v.kind = "-Infinity" -> TRUE
    [] OTHER -> FALSE

NumGreater(v, n) ==
  CASE v.kind = "finite" -> v.val > n
    [] v.kind = "Infinity" -> TRUE
    [] OTHER -> FALSE

isFinite(v) == v.type = "number" /\ v.kind = "finite"

HexDigits == {"0", "1", "2", "3", "4", "5", "6", "7", "8", "9",
              "A", "B", "C", "D", "E", "F", "a", "b", "c", "d", "e", "f"}

ColorLen == 7

\* /^#[0-9A-Fa-f]{6}$/.test(s), s a sequence of characters
ColorRegexTest(cs) ==
  /\ Len(cs) = ColorLen
  /\ cs[1] = "#"
  /\ \A i \in 2..ColorLen : cs[i] \in HexDigits

\* Strings are sequences of characters
brush == <<"b", "r", "u", "s", "h">>
eraser == <<"e", "r", "a", "s", "e", "r">>
validTools == {brush, eraser}

MinStrokeWidth == 1
MaxStrokeWidth == 50

\* A point of data.points: an object with x and y, or null, or a primitive
\* (reading .x of a primitive gives undefined, reading .x of null throws)
PointObj(x, y) == [kind |-> "object", x |-> x, y |-> y]
PointNull == [kind |-> "null", x |-> Undefined, y |-> Undefined]
PointPrim == [kind |-> "primitive", x |-> Undefined, y |-> Undefined]

\* The for-loop over data.points: "true" when it runs to its end, "false" at
\* the first point it rejects, "throw" when it reads .x of a null point
RECURSIVE CheckPoints(_, _)
CheckPoints(pts, i) ==
  IF i > Len(pts) THEN "true"
  ELSE IF pts[i].kind = "null" THEN "throw"
  ELSE IF pts[i].x.type # "number" \/ pts[i].y.type # "number" THEN "false"
  ELSE IF ~isFinite(pts[i].x) \/ ~isFinite(pts[i].y) THEN "false"
  ELSE CheckPoints(pts, i + 1)

\* Faulty variant: the stroke width is checked against the lower limit only
validateDrawingData_noUpperLimit(data) ==
  IF data.kind # "object" THEN "false"
  ELSE IF ~data.points.isArray \/ Len(data.points.elems) = 0 THEN "false"
  ELSE IF data.tool.type # "string" THEN "false"
  ELSE IF data.strokeWidth.type # "number" THEN "false"
  ELSE IF data.tool.chars \notin validTools THEN "false"
  ELSE IF NumLess(data.strokeWidth, MinStrokeWidth) THEN "false"
  ELSE IF data.tool.chars # eraser /\ data.color.type # "string" THEN "false"
  ELSE IF data.tool.chars # eraser /\ ~ColorRegexTest(data.color.chars) THEN "false"
  ELSE CheckPoints(data.points.elems, 1)

\* validateDrawingData(data): "true", "false", or "throw" when a TypeError
\* leaves the function
validateDrawingData(data) ==
  IF data.kind # "object" THEN "false"
  ELSE IF ~data.points.isArray \/ Len(data.points.elems) = 0 THEN "false"
  ELSE IF data.tool.type # "string" THEN "false"
  ELSE IF data.strokeWidth.type # "number" THEN "false"
  ELSE IF data.tool.chars \notin validTools THEN "false"
  ELSE IF NumLess(data.strokeWidth, MinStrokeWidth)
          \/ NumGreater(data.strokeWidth, MaxStrokeWidth) THEN "false"
  ELSE IF data.tool.chars # eraser /\ data.color.type # "string" THEN "false"
  ELSE IF data.tool.chars # eraser /\ ~ColorRegexTest(data.color.chars) THEN "false"
  ELSE CheckPoints(data.points.elems, 1)

----------------------------------------------------------------------------
(* DrawingStateManager: one room state per room id, created on first use.   *)
(* operations and undoStack are sequences of operations; operationIndex maps *)
(* an operation id to its 0-based position in operations.                    *)

EmptyIndex == [k \in {} |-> 0]

EmptyRoomState == [operations |-> <<>>, undoStack |-> <<>>, operationIndex |-> EmptyIndex]

IndexSet(idx, k, v) == [x \in (DOMAIN idx) \cup {k} |-> IF x = k THEN v ELSE idx[x]]
IndexDelete(idx, k) == [x \in (DOMAIN idx) \ {k} |-> idx[x]]

\* Faulty variant: no has() check, a new room state is set at every call
_getRoomState_fresh(rs, roomId) ==
  [r \in (DOMAIN rs) \cup {roomId} |-> IF r = roomId THEN EmptyRoomState ELSE rs[r]]

\* The roomStates map after _getRoomState(roomId); the state returned is the
\* entry of roomId in it
_getRoomState(rs, roomId) ==
  IF roomId \in DOMAIN rs THEN rs
  ELSE [r \in (DOMAIN rs) \cup {roomId} |-> IF r = roomId THEN EmptyRoomState ELSE rs[r]]

\* Every ledger call below gives [states |-> the roomStates map after the call,
\* result |-> what it returns: <<>> for null or nothing, <<op>> for an operation]

\* Faulty variant: unshift() for push(): the new operation goes to the front
addOperation_unshift(rs, roomId, operation) ==
  LET m == _getRoomState(rs, roomId)
      state == m[roomId]
      ops == <<operation>> \o state.operations
  IN [states |-> [m EXCEPT ![roomId] =
                    [operations |-> ops,
                     undoStack |-> <<>>,
                     operationIndex |-> IndexSet(state.operationIndex, operation.id, Len(ops) - 1)]],
      result |-> <<operation>>]

\* Faulty variant: the undo stack survives a new operation
addOperation_keepsUndoStack(rs, roomId, operation) ==
  LET m == _getRoomState(rs, roomId)
      state == m[roomId]
      ops == Append(state.operations, operation)
  IN [states |-> [m EXCEPT ![roomId] =
                    [operations |-> ops,
                     undoStack |-> state.undoStack,
                     operationIndex |-> IndexSet(state.operationIndex, operation.id, Len(ops) - 1)]],
      result |-> <<operation>>]

addOperation(rs, roomId, operation) ==
  LET m == _getRoomState(rs, roomId)
      state == m[roomId]
      ops == Append(state.operations, operation)
  IN [states |-> [m EXCEPT ![roomId] =
                    [operations |-> ops,
                     undoStack |-> <<>>,
                     operationIndex |-> IndexSet(state.operationIndex, operation.id, Len(ops) - 1)]],
      result |-> <<operation>>]

\* Faulty variant: the tail of operations is returned and stays where it is
undo_peek(rs, roomId) ==
  LET m == _getRoomState(rs, roomId)
      state == m[roomId]
      n == Len(state.operations)
  IN IF n = 0 THEN [states |-> m, result |-> <<>>]
     ELSE [states |-> m, result |-> <<state.operations[n]>>]

\* Faulty variant: the index entry of the undone operation is left behind
undo_keepsIndex(rs, roomId) ==
  LET m == _getRoomState(rs, roomId)
      state == m[roomId]
      n == Len(state.operations)
  IN IF n = 0 THEN [states |-> m, result |-> <<>>]
     ELSE LET operation == state.operations[n]
          IN [states |-> [m EXCEPT ![roomId] =
                            [operations |-> SubSeq(state.operations, 1, n - 1),
                             undoStack |-> Append(state.undoStack, operation),
                             operationIndex |-> state.operationIndex]],
              result |-> <<operation>>]

\* Faulty variant: shift() for pop(): the oldest operation is undone
undo_shift(rs, roomId) ==
  LET m == _getRoomState(rs, roomId)
      state == m[roomId]
      n == Len(state.operations)
  IN IF n = 0 THEN [states |-> m, result |-> <<>>]
     ELSE LET operation == state.operations[1]
          IN [states |-> [m EXCEPT ![roomId] =
                            [operations |-> SubSeq(state.operations, 2, n),
                             undoStack |-> Append(state.undoStack, operation),
                             operationIndex |-> IndexDelete(state.operationIndex, operation.id)]],
              result |-> <<operation>>]

\* Faulty variant: unshift() for push(): the undone operation goes under the
\* ones undone before it
undo_unshift(rs, roomId) ==
  LET m == _getRoomState(rs, roomId)
      state == m[roomId]
      n == Len(state.operations)
  IN IF n = 0 THEN [states |-> m, result |-> <<>>]
     ELSE LET operation == state.operations[n]
          IN [states |-> [m EXCEPT ![roomId] =
                            [operations |-> SubSeq(state.operations, 1, n - 1),
                             undoStack |-> <<operation>> \o state.undoStack,
                             operationIndex |-> IndexDelete(state.operationIndex, operation.id)]],
              result |-> <<operation>>]

undo(rs, roomId) ==
  LET m == _getRoomState(rs, roomId)
      state == m[roomId]
      n == Len(state.operations)
  IN IF n = 0 THEN [states |-> m, result |-> <<>>]
     ELSE LET operation == state.operations[n]
          IN [states |-> [m EXCEPT ![roomId] =
                            [operations |-> SubSeq(state.operations, 1, n - 1),
                             undoStack |-> Append(state.undoStack, operation),
                             operationIndex |-> IndexDelete(state.operationIndex, operation.id)]],
              result |-> <<operation>>]

\* Faulty variant: shift() for pop(): the operation undone first is redone
redo_shift(rs, roomId) ==
  LET m == _getRoomState(rs, roomId)
      state == m[roomId]
      n == Len(state.undoStack)
  IN IF n = 0 THEN [states |-> m, result |-> <<>>]
     ELSE LET operation == state.undoStack[1]
              ops == Append(state.operations, operation)
          IN [states |-> [m EXCEPT ![roomId] =
                            [operations |-> ops,
                             undoStack |-> SubSeq(state.undoStack, 2, n),
                             operationIndex |-> IndexSet(state.operationIndex, operation.id, Len(ops) - 1)]],
              result |-> <<operation>>]

\* Faulty variant: the redone operation is read from the top of the undo stack
\* and stays there
redo_keepsUndoStack(rs, roomId) ==
  LET m == _getRoomState(rs, roomId)
      state == m[roomId]
      n == Len(state.undoStack)
  IN IF n = 0 THEN [states |-> m, result |-> <<>>]
     ELSE LET operation == state.undoStack[n]
              ops == Append(state.operations, operation)
          IN [states |-> [m EXCEPT ![roomId] =
                            [operations |-> ops,
                             undoStack |-> state.undoStack,
                             operationIndex |-> IndexSet(state.operationIndex, operation.id, Len(ops) - 1)]],
              result |-> <<operation>>]

\* Faulty variant: the redone operation leaves the undo stack and is not put back
redo_dropsOperation(rs, roomId) ==
  LET m == _getRoomState(rs, roomId)
      state == m[roomId]
      n == Len(state.undoStack)
  IN IF n = 0 THEN [states |-> m, result |-> <<>>]
     ELSE LET operation == state.undoStack[n]
          IN [states |-> [m EXCEPT ![roomId] =
                            [operations |-> state.operations,
                             undoStack |-> SubSeq(state.undoStack, 1, n - 1),
                             operationIndex |-> state.operationIndex]],
              result |-> <<operation>>]

\* Faulty variant: the top of undoStack is read, not popped
redo_peek(rs, roomId) ==
  LET m == _getRoomState(rs, roomId)
      state == m[roomId]
      n == Len(state.undoStack)
  IN IF n = 0 THEN [states |-> m, result |-> <<>>]
     ELSE LET operation == state.undoStack[n]
              ops == Append(state.operations, operation)
          IN [states |-> [m EXCEPT ![roomId] =
                            [operations |-> ops,
                             undoStack |-> state.undoStack,
                             operationIndex |-> IndexSet(state.operationIndex, operation.id, Len(ops) - 1)]],
              result |-> <<operation>>]

redo(rs, roomId) ==
  LET m == _getRoomState(rs, roomId)
      state == m[roomId]
      n == Len(state.undoStack)
  IN IF n = 0 THEN [states |-> m, result |-> <<>>]
     ELSE LET operation == state.undoStack[n]
              ops == Append(state.operations, operation)
          IN [states |-> [m EXCEPT ![roomId] =
                            [operations |-> ops,
                             undoStack |-> SubSeq(state.undoStack, 1, n - 1),
                             operationIndex |-> IndexSet(state.operationIndex, operation.id, Len(ops) - 1)]],
              result |-> <<operation>>]

\* Faulty variant: what was undone is handed out with the operations
getState_withUndone(rs, roomId) ==
  LET m == _getRoomState(rs, roomId)
  IN [states |-> m,
      result |-> [m[roomId] EXCEPT !.operations = @ \o m[roomId].undoStack]]

getState(rs, roomId) ==
  LET m == _getRoomState(rs, roomId)
  IN [states |-> m, result |-> m[roomId]]

\* Faulty variant: every room state is emptied
clearState_allRooms(rs, roomId) ==
  LET m == _getRoomState(rs, roomId)
  IN [states |-> [r \in DOMAIN m |-> EmptyRoomState], result |-> <<>>]

\* Faulty variant: operations and the index are emptied, undoStack is not
clearState_keepsUndoStack(rs, roomId) ==
  LET m == _getRoomState(rs, roomId)
  IN [states |-> [m EXCEPT ![roomId] = [EmptyRoomState EXCEPT !.undoStack = m[roomId].undoStack]],
      result |-> <<>>]

clearState(rs, roomId) ==
  LET m == _getRoomState(rs, roomId)
  IN [states |-> [m EXCEPT ![roomId] = EmptyRoomState], result |-> <<>>]

\* operationIndex is a plain object {}: besides its own entries it answers
\* to the names it inherits from Object.prototype ('constructor', 'toString',
\* 'hasOwnProperty', ...). InheritedId is such a name given as operation id.
InheritedId == 0

\* The ids getOperation and removeOperation are called with
LedgerIds == {InheritedId} \cup (1..MaxLedgerOps)

\* state.operationIndex[operationId]: the number of an own entry, the
\* function of the prototype for an inherited name, undefined otherwise
IndexGet(idx, k) ==
  IF k \in DOMAIN idx THEN [type |-> "number", val |-> idx[k]]
  ELSE IF k = InheritedId THEN [type |-> "function", val |-> 0]
  ELSE [type |-> "undefined", val |-> 0]

\* getOperation: value tells what was returned, result holds the operation.
\* operations[index] with a function as index is a property lookup under the
\* function's source text, which no array has: undefined
getOperation(rs, roomId, operationId) ==
  LET m == _getRoomState(rs, roomId)
      state == m[roomId]
      index == IndexGet(state.operationIndex, operationId)
  IN IF index.type # "undefined"
     THEN IF index.type = "number"
          THEN [states |-> m, result |-> <<state.operations[index.val + 1]>>,
                value |-> "operation"]
          ELSE [states |-> m, result |-> <<>>, value |-> "undefined"]
     ELSE [states |-> m, result |-> <<>>, value |-> "null"]

\* Faulty variant: the last operation is taken out, whatever the index
Splice1_tail(ops, index) == SubSeq(ops, 1, Len(ops) - 1)

\* operations.splice(index, 1)
Splice1(ops, index) == SubSeq(ops, 1, index) \o SubSeq(ops, index + 2, Len(ops))

\* The start argument of splice goes through ToIntegerOrInfinity: a value
\* that is not a number converts to NaN and counts as 0
SpliceStart(index) == IF index.type = "number" THEN index.val ELSE 0

\* _rebuildIndex(state): the index built by one pass over operations, a later
\* entry with the same id overwriting an earlier one
RECURSIVE RebuildFrom(_, _, _)
RebuildFrom(ops, i, idx) ==
  IF i > Len(ops) THEN idx
  ELSE RebuildFrom(ops, i + 1, IndexSet(idx, ops[i].id, i - 1))

_rebuildIndex(ops) == RebuildFrom(ops, 1, EmptyIndex)

removeOperation(rs, roomId, operationId) ==
  LET m == _getRoomState(rs, roomId)
      state == m[roomId]
      index == IndexGet(state.operationIndex, operationId)
  IN IF index.type # "undefined"
     THEN LET ops == Splice1(state.operations, SpliceStart(index))
          IN [states |-> [m EXCEPT ![roomId] =
                            [operations |-> ops,
                             undoStack |-> state.undoStack,
                             operationIndex |-> _rebuildIndex(ops)]],
              result |-> <<>>]
     ELSE [states |-> m, result |-> <<>>]

----------------------------------------------------------------------------
(* RoomManager *)

NumColors == 12

\* addUser(roomId, userId, username): the rooms map after the call and the
\* color index it returns
addUser(rm, roomId, userId) ==
  LET m == IF roomId \in DOMAIN rm THEN rm
           ELSE [r \in (DOMAIN rm) \cup {roomId} |-> IF r = roomId THEN EmptyIndex ELSE rm[r]]
      room == m[roomId]
      colorIndex == Cardinality(DOMAIN room) % NumColors
  IN [rooms |-> [m EXCEPT ![roomId] = IndexSet(room, userId, colorIndex)],
      result |-> colorIndex]

\* removeUser(roomId, userId): the rooms map after the call, an emptied room
\* being deleted, and <<color index>> of the removed user, <<>> when the room
\* or the user is not there
removeUser(rm, roomId, userId) ==
  IF roomId \notin DOMAIN rm THEN [rooms |-> rm, result |-> <<>>]
  ELSE LET room == IndexDelete(rm[roomId], userId)
           user == IF userId \in DOMAIN rm[roomId] THEN <<rm[roomId][userId]>> ELSE <<>>
       IN [rooms |-> IF DOMAIN room = {}
                     THEN [r \in (DOMAIN rm) \ {roomId} |-> rm[r]]
                     ELSE [rm EXCEPT ![roomId] = room],
           result |-> user]

\* getUsers(roomId): the users of the room, here as the map userId -> color index
getUsers(rm, roomId) == IF roomId \in DOMAIN rm THEN rm[roomId] ELSE EmptyIndex

----------------------------------------------------------------------------
(* Events the server emits *)

NoColor == 0 - 1

Event(type, ops, operationId, userId, color, users) ==
  [type |-> type, operations |-> ops, operationId |-> operationId,
   userId |-> userId, color |-> color, users |-> users]

\* Faulty variant: the snapshot is sent without the operations
InitialStateEvent_noOperations(ops, users, userColor) ==
  Event("initial-state", <<>>, 0, "", userColor, users)

InitialStateEvent(ops, users, userColor) == Event("initial-state", ops, 0, "", userColor, users)
CursorMoveEvent(userId) == Event("cursor-move", <<>>, 0, userId, NoColor, EmptyIndex)
UserJoinedEvent(userId, color) == Event("user-joined", <<>>, 0, userId, color, EmptyIndex)
DrawEvent(operation) == Event("draw", <<operation>>, 0, "", NoColor, EmptyIndex)
UndoEvent(operationId) == Event("undo", <<>>, operationId, "", NoColor, EmptyIndex)
RedoEvent(operation) == Event("redo", <<operation>>, 0, "", NoColor, EmptyIndex)
ClearCanvasEvent == Event("clear-canvas", <<>>, 0, "", NoColor, EmptyIndex)
UserLeftEvent(userId) == Event("user-left", <<>>, 0, userId, NoColor, EmptyIndex)

\* The sockets in a Socket.io room
Members(sr, roomId) == {t \in Sockets : \E i \in 1..Len(sr[t]) : sr[t][i] = roomId}

\* emit to a set of sockets: the event joins the end of each one's stream
Emit(inb, targets, event) ==
  [t \in Sockets |-> IF t \in targets THEN Append(inb[t], event) ELSE inb[t]]

HasRoom(inb, targets) == \A t \in targets : Len(inb[t]) < MaxInbox

\* rooms.find(room => room !== socket.id) || 'default-room'
RoomOf(sr, s) == IF Len(sr[s]) = 0 THEN DefaultRoom ELSE sr[s][1]

\* socket.join(roomId): socket.rooms is a Set, it keeps insertion order
SocketJoin(joined, roomId) ==
  IF \E i \in 1..Len(joined) : joined[i] = roomId THEN joined ELSE Append(joined, roomId)

----------------------------------------------------------------------------
(* What the last step was *)

\* kind: the handler; sock: the socket whose intent it was, kept for the intents
\* that had an effect; verdict: what validation said ("true", "false", "throw")
\* or whether the ledger call returned an operation ("some") or null ("none")
Ran(kind, sock, verd) == [kind |-> kind, sock |-> sock, verdict |-> verd]

Returned(result) == IF result = <<>> THEN "none" ELSE "some"

----------------------------------------------------------------------------
(* Draw payloads the clients send *)

Color112233 == <<"#", "1", "1", "2", "2", "3", "3">>

\* id, userId and timestamp are fields the client's pathData does not have:
\* 0 and "" stand for a field that is not there
Payload(points, tool, color, strokeWidth) ==
  [kind |-> "object", points |-> [isArray |-> TRUE, elems |-> points],
   tool |-> tool, color |-> color, strokeWidth |-> strokeWidth,
   id |-> 0, userId |-> "", timestamp |-> 0]

ThreePoints == <<PointObj(Num(0), Num(0)), PointObj(Num(1), Num(2)), PointObj(Num(3), Num(1))>>

BrushStroke == Payload(ThreePoints, Str(brush), Str(Color112233), Num(5))
WideStroke == Payload(ThreePoints, Str(brush), Str(Color112233), Num(51))
ThinStroke == Payload(ThreePoints, Str(eraser), Undefined, Num(0))
EmptyStroke == Payload(<<>>, Str(brush), Str(Color112233), Num(5))
BadColorStroke == Payload(ThreePoints, Str(brush), Str(<<"#", "Z", "Z", "Z", "Z", "Z", "Z">>), Num(5))

DrawInputs == {BrushStroke, WideStroke, ThinStroke, EmptyStroke, BadColorStroke}

\* A payload that passes validation and brings an id, a userId and a
\* timestamp of its own: a client is free to put them into what it sends
ForgedId == 99
ForgedTimestamp == 0 - 5
ForgedStroke ==
  [Payload(ThreePoints, Str(brush), Str(Color112233), Num(7))
     EXCEPT !.id = ForgedId, !.userId = "s2", !.timestamp = ForgedTimestamp]

StampInputs == {BrushStroke, ForgedStroke}

\* Date.now() at the server when it stamps the operation with this id: the
\* clock of the model ticks once for every operation
Now(id) == id

\* Faulty variant: { userId, timestamp, id, ...data }, the payload's own fields
\* are spread last and win
Stamp_spreadLast(data, userId, id) ==
  [id |-> IF data.id # 0 THEN data.id ELSE id,
   userId |-> IF data.userId # "" THEN data.userId ELSE userId,
   timestamp |-> IF data.timestamp # 0 THEN data.timestamp ELSE Now(id),
   points |-> data.points.elems, tool |-> data.tool,
   color |-> data.color, strokeWidth |-> data.strokeWidth]

\* { ...data, userId: socket.id, timestamp: Date.now(), id }: the stamped
\* operation; userId, timestamp and id come after the spread and replace
\* whatever the payload had under these names
Stamp(data, userId, id) ==
  [id |-> id, userId |-> userId, timestamp |-> Now(id),
   points |-> data.points.elems, tool |-> data.tool,
   color |-> data.color, strokeWidth |-> data.strokeWidth]

----------------------------------------------------------------------------
(* server.js: the handlers of one socket *)

\* socket.on('join-room'), whatever the socket has joined before
JoinRoom(s, roomId) ==
  LET joined == SocketJoin(socketRooms[s], roomId)
      sr == [socketRooms EXCEPT ![s] = joined]
      added == addUser(rooms, roomId, s)
      got == getState(roomStates, roomId)
      others == Members(sr, roomId) \ {s}
  IN /\ connected[s]
     /\ HasRoom(inbox, Members(sr, roomId))
     /\ socketRooms' = sr
     /\ rooms' = added.rooms
     /\ roomStates' = got.states
     /\ inbox' = Emit(Emit(inbox, {s},
                           InitialStateEvent(got.result.operations,
                                             getUsers(added.rooms, roomId), added.result)),
                      others, UserJoinedEvent(s, added.result))
     /\ last' = Ran("join-room", s, "")
     /\ UNCHANGED <<connected, nextId, clientVars, validateVars>>

\* The join-room a client sends when its socket has connected, its first
JoinHandler(s, roomId) == Len(socketRooms[s]) = 0 /\ JoinRoom(s, roomId)

\* A socket that has joined a room sends join-room for another room; the
\* client of the repository never does, the handler serves whoever does
OnJoinRoomAgain(s, roomId) ==
  /\ Len(socketRooms[s]) > 0
  /\ \A i \in 1..Len(socketRooms[s]) : socketRooms[s][i] # roomId
  /\ JoinRoom(s, roomId)
  /\ UNCHANGED tabVars

\* join-room sent by a client other than the tab
OnJoinRoom(s, roomId) == JoinHandler(s, roomId) /\ UNCHANGED tabVars

\* Faulty variant: io.to for socket.to, the sender gets its own draw
OnDraw_ioTo(s, data) ==
  LET roomId == RoomOf(socketRooms, s)
      v == validateDrawingData(data)
      operation == Stamp(data, s, nextId + 1)
      added == addOperation(roomStates, roomId, operation)
      all == Members(socketRooms, roomId)
  IN IF v # "true"
     THEN /\ connected[s]
          /\ last' = Ran("draw", "", v)
          /\ UNCHANGED <<serverVars, inbox, clientVars, validateVars, tabVars>>
     ELSE /\ connected[s]
          /\ nextId < MaxOps
          /\ HasRoom(inbox, all)
          /\ nextId' = nextId + 1
          /\ roomStates' = added.states
          /\ inbox' = Emit(inbox, all, DrawEvent(operation))
          /\ last' = Ran("draw", s, v)
          /\ UNCHANGED <<rooms, socketRooms, connected, clientVars, validateVars, tabVars>>

DrawHandler(s, data) ==
  LET roomId == RoomOf(socketRooms, s)
      v == validateDrawingData(data)
      operation == Stamp(data, s, nextId + 1)
      added == addOperation(roomStates, roomId, operation)
      others == Members(socketRooms, roomId) \ {s}
  IN IF v # "true"
     THEN /\ connected[s]
          /\ last' = Ran("draw", "", v)
          /\ UNCHANGED <<serverVars, inbox, clientVars, validateVars>>
     ELSE /\ connected[s]
          /\ nextId < MaxOps
          /\ HasRoom(inbox, others)
          /\ nextId' = nextId + 1
          /\ roomStates' = added.states
          /\ inbox' = Emit(inbox, others, DrawEvent(operation))
          /\ last' = Ran("draw", s, v)
          /\ UNCHANGED <<rooms, socketRooms, connected, clientVars, validateVars>>

\* draw sent by a client other than the tab
OnDraw(s, data) == DrawHandler(s, data) /\ UNCHANGED tabVars

\* socket.on('cursor-move'): the position goes to the others of the room;
\* the event of the model names the sender and leaves the position out
CursorHandler(s) ==
  LET roomId == RoomOf(socketRooms, s)
      others == Members(socketRooms, roomId) \ {s}
  IN /\ connected[s]
     /\ HasRoom(inbox, others)
     /\ inbox' = Emit(inbox, others, CursorMoveEvent(s))
     /\ UNCHANGED serverVars

\* Faulty variant: socket.to for io.to, the sender does not get the undo
OnUndo_socketTo(s) ==
  LET roomId == RoomOf(socketRooms, s)
      undone == undo(roomStates, roomId)
      others == Members(socketRooms, roomId) \ {s}
  IN /\ connected[s]
     /\ undone.result # <<>> => HasRoom(inbox, others)
     /\ roomStates' = undone.states
     /\ inbox' = IF undone.result # <<>>
                 THEN Emit(inbox, others, UndoEvent(undone.result[1].id))
                 ELSE inbox
     /\ last' = Ran("undo", IF undone.result # <<>> THEN s ELSE "", Returned(undone.result))
     /\ UNCHANGED <<rooms, socketRooms, connected, nextId, clientVars, validateVars, tabVars>>

OnUndo(s) ==
  LET roomId == RoomOf(socketRooms, s)
      undone == undo(roomStates, roomId)
      all == Members(socketRooms, roomId)
  IN /\ connected[s]
     /\ undone.result # <<>> => HasRoom(inbox, all)
     /\ roomStates' = undone.states
     /\ inbox' = IF undone.result # <<>>
                 THEN Emit(inbox, all, UndoEvent(undone.result[1].id))
                 ELSE inbox
     /\ last' = Ran("undo", IF undone.result # <<>> THEN s ELSE "", Returned(undone.result))
     /\ UNCHANGED <<rooms, socketRooms, connected, nextId, clientVars, validateVars, tabVars>>

\* The undo handler as a function of what it reads and writes: the room
\* states and the streams in st, and who is in which room
UndoIntent(st, sr, s) ==
  LET roomId == RoomOf(sr, s)
      undone == undo(st.states, roomId)
  IN [states |-> undone.states,
      inbox |-> IF undone.result # <<>>
                THEN Emit(st.inbox, Members(sr, roomId), UndoEvent(undone.result[1].id))
                ELSE st.inbox]

\* Undo intents of these senders, handled one after the other as they arrive
RECURSIVE UndoIntents(_, _, _)
UndoIntents(st, sr, senders) ==
  IF senders = <<>> THEN st
  ELSE UndoIntents(UndoIntent(st, sr, Head(senders)), sr, Tail(senders))

\* The orders in which undo intents of different sockets, one each, can arrive
Bursts ==
  {senders \in UNION {[1..k -> Sockets] : k \in 1..Cardinality(Sockets)} :
     \A i, j \in DOMAIN senders : senders[i] = senders[j] => i = j}

OnRedo(s) ==
  LET roomId == RoomOf(socketRooms, s)
      redone == redo(roomStates, roomId)
      all == Members(socketRooms, roomId)
  IN /\ connected[s]
     /\ redone.result # <<>> => HasRoom(inbox, all)
     /\ roomStates' = redone.states
     /\ inbox' = IF redone.result # <<>>
                 THEN Emit(inbox, all, RedoEvent(redone.result[1]))
                 ELSE inbox
     /\ last' = Ran("redo", IF redone.result # <<>> THEN s ELSE "", Returned(redone.result))
     /\ UNCHANGED <<rooms, socketRooms, connected, nextId, clientVars, validateVars, tabVars>>

OnClearCanvas(s) ==
  LET roomId == RoomOf(socketRooms, s)
      cleared == clearState(roomStates, roomId)
      all == Members(socketRooms, roomId)
  IN /\ connected[s]
     /\ HasRoom(inbox, all)
     /\ roomStates' = cleared.states
     /\ inbox' = Emit(inbox, all, ClearCanvasEvent)
     /\ last' = Ran("clear-canvas", s, "")
     /\ UNCHANGED <<rooms, socketRooms, connected, nextId, clientVars, validateVars, tabVars>>

\* Faulty variant: the state of a room is deleted with its last member, as
\* removeUser deletes the emptied room
OnDisconnect_dropsLedger(s) ==
  LET sr == [socketRooms EXCEPT ![s] = <<>>]
      roomId == RoomOf(sr, s)
      removed == removeUser(rooms, roomId, s)
      others == Members(sr, roomId) \ {s}
  IN /\ connected[s]
     /\ HasRoom(inbox, others)
     /\ connected' = [connected EXCEPT ![s] = FALSE]
     /\ socketRooms' = sr
     /\ rooms' = removed.rooms
     /\ roomStates' = [r \in {x \in DOMAIN roomStates : Members(sr, x) # {}} |-> roomStates[r]]
     /\ inbox' = [Emit(inbox, others, UserLeftEvent(s)) EXCEPT ![s] = <<>>]
     /\ last' = Ran("disconnect", s, "")
     /\ UNCHANGED <<nextId, clientVars, validateVars, tabVars>>

\* The 'disconnect' handler. Socket.io empties socket.rooms before it emits
\* 'disconnect' (the rooms are still there in 'disconnecting' only), so
\* rooms.find(...) gives undefined and roomId is 'default-room' whatever room
\* the socket was in. The socket is gone for good: a client that reconnects
\* is another socket, with another id. Events still on their way to it are lost.
OnDisconnect(s) ==
  LET sr == [socketRooms EXCEPT ![s] = <<>>]
      roomId == RoomOf(sr, s)
      removed == removeUser(rooms, roomId, s)
      others == Members(sr, roomId) \ {s}
  IN /\ connected[s]
     /\ HasRoom(inbox, others)
     /\ connected' = [connected EXCEPT ![s] = FALSE]
     /\ socketRooms' = sr
     /\ rooms' = removed.rooms
     /\ inbox' = [Emit(inbox, others, UserLeftEvent(s)) EXCEPT ![s] = <<>>]
     /\ last' = Ran("disconnect", s, "")
     /\ UNCHANGED <<roomStates, nextId, clientVars, validateVars, tabVars>>

----------------------------------------------------------------------------
(* websocket.js: the client's handlers of the server's events *)

\* operations.forEach(op => operationIndex[op.id] = op)
RECURSIVE IndexAll(_, _, _)
IndexAll(ops, i, idx) ==
  IF i > Len(ops) THEN idx ELSE IndexAll(ops, i + 1, IndexSet(idx, ops[i].id, ops[i]))

handleInitialState(ws, data) ==
  [operations |-> data.operations,
   operationIndex |-> IndexAll(data.operations, 1, ws.operationIndex)]

handleRemoteDraw(ws, data) ==
  [operations |-> Append(ws.operations, data),
   operationIndex |-> IndexSet(ws.operationIndex, data.id, data)]

\* operations.findIndex(op => op.id === id): 0-based, -1 when there is none
RECURSIVE FindIndexFrom(_, _, _)
FindIndexFrom(ops, id, i) ==
  IF i > Len(ops) THEN 0 - 1
  ELSE IF ops[i].id = id THEN i - 1
  ELSE FindIndexFrom(ops, id, i + 1)

findIndex(ops, id) == FindIndexFrom(ops, id, 1)

\* Faulty variant: no check of index !== -1; splice(-1, 1) takes the last
\* operation out when the id is not in the list
handleUndo_noGuard(ws, operationId) ==
  LET index == findIndex(ws.operations, operationId)
  IN [operations |-> IF index # 0 - 1 THEN Splice1(ws.operations, index)
                     ELSE SubSeq(ws.operations, 1, Len(ws.operations) - 1),
      operationIndex |-> IndexDelete(ws.operationIndex, operationId)]

handleUndo(ws, operationId) ==
  LET index == findIndex(ws.operations, operationId)
  IN IF index # 0 - 1
     THEN [operations |-> Splice1(ws.operations, index),
           operationIndex |-> IndexDelete(ws.operationIndex, operationId)]
     ELSE ws

handleRedo(ws, operation) ==
  [operations |-> Append(ws.operations, operation),
   operationIndex |-> IndexSet(ws.operationIndex, operation.id, operation)]

handleClearCanvas(ws) == [operations |-> <<>>, operationIndex |-> EmptyIndex]

\* main.js, CanvasManager: the canvas is the sequence of the paths painted on
\* it since it was last cleared
clear(canvas) == <<>>

\* drawPath(pathData): nothing is painted for a path without points
drawPath(canvas, pathData) ==
  IF Len(pathData.points) = 0 THEN canvas ELSE Append(canvas, pathData)

RECURSIVE DrawEach(_, _, _)
DrawEach(canvas, operations, i) ==
  IF i > Len(operations) THEN canvas
  ELSE DrawEach(drawPath(canvas, operations[i]), operations, i + 1)

\* redrawAll(operations): the canvas is cleared and the operations are
\* painted in their order, whatever the canvas showed before
redrawAll(canvas, operations) == DrawEach(clear(canvas), operations, 1)

\* The socket's listeners, by event type
Dispatch(ws, event) ==
  CASE event.type = "initial-state" -> handleInitialState(ws, event)
    [] event.type = "draw" -> handleRemoteDraw(ws, event.operations[1])
    [] event.type = "undo" -> handleUndo(ws, event.operationId)
    [] event.type = "redo" -> handleRedo(ws, event.operations[1])
    [] event.type = "clear-canvas" -> handleClearCanvas(ws)
    [] OTHER -> ws

\* Client c handles the next event of its stream
Deliver(c) ==
  /\ Len(inbox[c]) > 0
  /\ LET event == Head(inbox[c])
         ws == Dispatch([operations |-> wsOperations[c],
                         operationIndex |-> wsOperationIndex[c]], event)
     IN /\ wsOperations' = [wsOperations EXCEPT ![c] = ws.operations]
        /\ wsOperationIndex' = [wsOperationIndex EXCEPT ![c] = ws.operationIndex]
        /\ last' = Ran("deliver", "", "")
  /\ inbox' = [inbox EXCEPT ![c] = Tail(inbox[c])]
  /\ UNCHANGED <<serverVars, validateVars, tabVars>>

----------------------------------------------------------------------------
(* The system: the server's handlers and the clients *)

NoCandidate == [kind |-> "undefined", points |-> [isArray |-> FALSE, elems |-> <<>>],
                tool |-> Undefined, color |-> Undefined, strokeWidth |-> Undefined]

\* The tab after new CanvasManager(canvas) and new WebSocketManager(...):
\* nothing drawn, connect() called and the socket not yet connected
TabInit ==
  /\ isDrawing = FALSE
  /\ canvasManager = [isDrawing |-> FALSE, currentPath |-> <<>>]
  /\ wsManager = [socket |-> "", connected |-> FALSE]
  /\ stroke = [dropped |-> FALSE, startId |-> 0, watchers |-> {}]

Init ==
  /\ TabInit
  /\ roomStates = EmptyIndex
  /\ rooms = EmptyIndex
  /\ socketRooms = [s \in Sockets |-> <<>>]
  /\ connected = [s \in Sockets |-> TRUE]
  /\ inbox = [s \in Sockets |-> <<>>]
  /\ wsOperations = [s \in Sockets |-> <<>>]
  /\ wsOperationIndex = [s \in Sockets |-> EmptyIndex]
  /\ nextId = 0
  /\ last = Ran("init", "", "")
  /\ cand = NoCandidate
  /\ verdict = ""

Next ==
  \/ \E s \in Sockets, roomId \in Rooms : OnJoinRoom(s, roomId)
  \/ \E s \in Sockets, data \in DrawInputs : OnDraw(s, data)
  \/ \E s \in Sockets : OnUndo(s)
  \/ \E s \in Sockets : OnRedo(s)
  \/ \E s \in Sockets : OnClearCanvas(s)
  \/ \E c \in Sockets : Deliver(c)

Spec == Init /\ [][Next]_vars

\* Participants that draw and nothing else: joins, draws with and without
\* fields of the client's own under the stamped names, and the clients
NextDraws ==
  \/ \E s \in Sockets, roomId \in Rooms : OnJoinRoom(s, roomId)
  \/ \E s \in Sockets, data \in StampInputs : OnDraw(s, data)
  \/ \E c \in Sockets : Deliver(c)

SpecDraws == Init /\ [][NextDraws]_vars

\* The whole life of the sockets: they join, draw, undo and redo, and every
\* socket may disconnect
NextSession ==
  \/ \E s \in Sockets, roomId \in Rooms : OnJoinRoom(s, roomId)
  \/ \E s \in Sockets : OnDraw(s, BrushStroke)
  \/ \E s \in Sockets : OnUndo(s)
  \/ \E s \in Sockets : OnRedo(s)
  \/ \E s \in Sockets : OnDisconnect(s)
  \/ \E c \in Sockets : Deliver(c)

SpecSession == Init /\ [][NextSession]_vars

\* Sockets that send join-room for one room and later for another
NextRejoin ==
  \/ \E s \in Sockets, roomId \in Rooms : OnJoinRoom(s, roomId)
  \/ \E s \in Sockets, roomId \in Rooms : OnJoinRoomAgain(s, roomId)
  \/ \E s \in Sockets : OnDraw(s, BrushStroke)
  \/ \E s \in Sockets : OnUndo(s)
  \/ \E s \in Sockets : OnRedo(s)
  \/ \E s \in Sockets : OnClearCanvas(s)
  \/ \E c \in Sockets : Deliver(c)

SpecRejoin == Init /\ [][NextRejoin]_vars

\* cursor-move sent by a client other than the tab
OnCursorMove(s) ==
  /\ CursorHandler(s)
  /\ last' = Ran("cursor-move", s, "")
  /\ UNCHANGED <<clientVars, validateVars, tabVars>>

\* Every intent a socket can send: joins, draws that pass validation and
\* draws that do not, cursor moves, undo, redo, clear-canvas, and its end
NextIntents ==
  \/ \E s \in Sockets, roomId \in Rooms : OnJoinRoom(s, roomId)
  \/ \E s \in Sockets, data \in {BrushStroke, EmptyStroke} : OnDraw(s, data)
  \/ \E s \in Sockets : OnCursorMove(s)
  \/ \E s \in Sockets : OnUndo(s)
  \/ \E s \in Sockets : OnRedo(s)
  \/ \E s \in Sockets : OnClearCanvas(s)
  \/ \E s \in Sockets : OnDisconnect(s)
  \/ \E c \in Sockets : Deliver(c)

SpecIntents == Init /\ [][NextIntents]_vars

----------------------------------------------------------------------------
(* The DrawingStateManager alone: its methods called directly, in any order, *)
(* with operations stamped as the draw handler stamps them                   *)

LedgerAdd(roomId, userId) ==
  /\ nextId < MaxLedgerOps
  /\ nextId' = nextId + 1
  /\ roomStates' = addOperation(roomStates, roomId, Stamp(BrushStroke, userId, nextId + 1)).states
  /\ last' = Ran("addOperation", userId, "some")
  /\ UNCHANGED <<rooms, socketRooms, connected, inbox, clientVars, validateVars, tabVars>>

LedgerUndo(roomId) ==
  /\ roomStates' = undo(roomStates, roomId).states
  /\ last' = Ran("undo", "", Returned(undo(roomStates, roomId).result))
  /\ UNCHANGED <<rooms, socketRooms, connected, nextId, inbox, clientVars, validateVars, tabVars>>

LedgerRedo(roomId) ==
  /\ roomStates' = redo(roomStates, roomId).states
  /\ last' = Ran("redo", "", Returned(redo(roomStates, roomId).result))
  /\ UNCHANGED <<rooms, socketRooms, connected, nextId, inbox, clientVars, validateVars, tabVars>>

LedgerClear(roomId) ==
  /\ roomStates' = clearState(roomStates, roomId).states
  /\ last' = Ran("clearState", "", "")
  /\ UNCHANGED <<rooms, socketRooms, connected, nextId, inbox, clientVars, validateVars, tabVars>>

LedgerRemove(roomId, operationId) ==
  /\ roomStates' = removeOperation(roomStates, roomId, operationId).states
  /\ last' = Ran("removeOperation", "",
                 IF /\ roomId \in DOMAIN roomStates
                    /\ \E i \in 1..Len(roomStates[roomId].operations) :
                         roomStates[roomId].operations[i].id = operationId
                 THEN "present" ELSE "absent")
  /\ UNCHANGED <<rooms, socketRooms, connected, nextId, inbox, clientVars, validateVars, tabVars>>

LedgerGet(roomId, operationId) ==
  /\ roomStates' = getOperation(roomStates, roomId, operationId).states
  /\ last' = Ran("getOperation", "", Returned(getOperation(roomStates, roomId, operationId).result))
  /\ UNCHANGED <<rooms, socketRooms, connected, nextId, inbox, clientVars, validateVars, tabVars>>

NextLedger ==
  \/ \E roomId \in Rooms, userId \in Sockets : LedgerAdd(roomId, userId)
  \/ \E roomId \in Rooms : LedgerUndo(roomId)
  \/ \E roomId \in Rooms : LedgerRedo(roomId)
  \/ \E roomId \in Rooms : LedgerClear(roomId)
  \/ \E roomId \in Rooms, operationId \in LedgerIds : LedgerRemove(roomId, operationId)
  \/ \E roomId \in Rooms, operationId \in LedgerIds : LedgerGet(roomId, operationId)

SpecLedger == Init /\ [][NextLedger]_vars

----------------------------------------------------------------------------
(* The RoomManager alone: its methods called directly, in any order *)

\* The user ids addUser and removeUser are called with
UserIds == Sockets \cup {"s3"}

RoomsAddUser(roomId, userId) ==
  /\ rooms' = addUser(rooms, roomId, userId).rooms
  /\ last' = Ran("addUser", userId, "")
  /\ UNCHANGED <<roomStates, socketRooms, connected, nextId, inbox, clientVars, validateVars, tabVars>>

RoomsRemoveUser(roomId, userId) ==
  /\ rooms' = removeUser(rooms, roomId, userId).rooms
  /\ last' = Ran("removeUser", userId, Returned(removeUser(rooms, roomId, userId).result))
  /\ UNCHANGED <<roomStates, socketRooms, connected, nextId, inbox, clientVars, validateVars, tabVars>>

RoomsGetUsers(roomId) ==
  /\ last' = Ran("getUsers", "", IF DOMAIN getUsers(rooms, roomId) = {} THEN "none" ELSE "some")
  /\ UNCHANGED <<serverVars, inbox, clientVars, validateVars, tabVars>>

NextRooms ==
  \/ \E roomId \in Rooms, userId \in UserIds : RoomsAddUser(roomId, userId)
  \/ \E roomId \in Rooms, userId \in UserIds : RoomsRemoveUser(roomId, userId)
  \/ \E roomId \in Rooms : RoomsGetUsers(roomId)

SpecRooms == Init /\ [][NextRooms]_vars

----------------------------------------------------------------------------
(* One browser tab followed pointer by pointer: its strokes, its connection  *)
(* going and coming back, beside the server and the other clients.          *)
(* socket.emit and the server's handler of the event are one step.          *)

MaxPath == 3

\* The n-th position of the pointer during a stroke, clamped to the canvas
PathPoint(n) == IF n <= Len(ThreePoints) THEN ThreePoints[n] ELSE PointObj(Num(n), Num(n))

\* CanvasManager.startDrawing(x, y)
startDrawing(cm, point) == [isDrawing |-> TRUE, currentPath |-> <<point>>]

\* CanvasManager.draw(x, y)
draw(cm, point) ==
  IF ~cm.isDrawing THEN cm ELSE [cm EXCEPT !.currentPath = Append(@, point)]

\* CanvasManager.stopDrawing(): the manager after the call and <<pathData>>,
\* <<>> for null; tool, color and strokeWidth are the ones the tab has set
stopDrawing(cm) ==
  IF ~cm.isDrawing THEN [canvasManager |-> cm, result |-> <<>>]
  ELSE [canvasManager |-> [isDrawing |-> FALSE, currentPath |-> <<>>],
        result |-> <<Payload(cm.currentPath, Str(brush), Str(Color112233), Num(5))>>]

\* Faulty variant: no check of this.connected; what is emitted on a socket
\* the tab knows to be down goes out as soon as the server can be reached
sendDraw_noGuard(ws, pathData) == pathData # <<>>

\* WebSocketManager.sendDraw(pathData): whether it emits
sendDraw(ws, pathData) == ~(~ws.connected \/ pathData = <<>>)

\* WebSocketManager.sendCursorMove(x, y): whether it emits
sendCursorMove(ws) == ws.connected

\* socket.on('connect'), at the first connection and at every reconnection of
\* the tab: s is the id of the new socket, one that was never used; joinRoom()
\* emits join-room with this.roomId, which is always 'default-room'
OnConnect(s) ==
  /\ ~wsManager.connected
  /\ s # wsManager.socket
  /\ wsManager' = [socket |-> s, connected |-> TRUE]
  /\ JoinHandler(s, DefaultRoom)
  /\ UNCHANGED <<isDrawing, canvasManager, stroke>>

\* socket.on('disconnect') at the tab
OnTabDisconnect ==
  /\ wsManager.connected
  /\ wsManager' = [wsManager EXCEPT !.connected = FALSE]
  /\ stroke' = [stroke EXCEPT !.dropped = isDrawing]
  /\ last' = Ran("tab-disconnect", wsManager.socket, "")
  /\ UNCHANGED <<serverVars, inbox, clientVars, validateVars, isDrawing, canvasManager>>

\* mousedown, touchstart
StartStroke ==
  /\ canvasManager' = startDrawing(canvasManager, PathPoint(1))
  /\ isDrawing' = TRUE
  /\ stroke' = [dropped |-> FALSE, startId |-> nextId,
                watchers |-> IF wsManager.connected /\ connected[wsManager.socket]
                             THEN Members(socketRooms, RoomOf(socketRooms, wsManager.socket))
                                    \ {wsManager.socket}
                             ELSE {}]
  /\ last' = Ran("mousedown", "", "")
  /\ UNCHANGED <<serverVars, inbox, clientVars, validateVars, wsManager>>

\* mousemove, touchmove: throttled tells whether drawingThrottleTimer is set
\* (touchmove sends no cursor position at all)
MoveStroke(throttled) ==
  /\ isDrawing => Len(canvasManager.currentPath) < MaxPath
  /\ IF ~throttled /\ sendCursorMove(wsManager) /\ connected[wsManager.socket]
     THEN CursorHandler(wsManager.socket)
     ELSE UNCHANGED <<serverVars, inbox>>
  /\ canvasManager' = IF isDrawing
                      THEN draw(canvasManager, PathPoint(Len(canvasManager.currentPath) + 1))
                      ELSE canvasManager
  /\ last' = Ran("mousemove", "", "")
  /\ UNCHANGED <<clientVars, validateVars, isDrawing, wsManager, stroke>>

\* mouseup, mouseleave, touchend
StopStroke ==
  /\ isDrawing
  /\ LET stopped == stopDrawing(canvasManager)
         pathData == stopped.result
         sends == /\ pathData # <<>>
                  /\ Len(pathData[1].points.elems) > 0
                  /\ sendDraw(wsManager, pathData)
     IN /\ canvasManager' = stopped.canvasManager
        /\ IF sends /\ wsManager.socket # "" /\ connected[wsManager.socket]
           THEN DrawHandler(wsManager.socket, pathData[1])
           ELSE /\ last' = Ran("mouseup", "", IF sends THEN "lost" ELSE "none")
                /\ UNCHANGED <<serverVars, inbox, clientVars, validateVars>>
  /\ isDrawing' = FALSE
  /\ UNCHANGED <<wsManager, stroke>>

NextStroke ==
  \/ \E s \in Sockets : OnConnect(s)
  \/ OnTabDisconnect
  \/ StartStroke
  \/ \E throttled \in BOOLEAN : MoveStroke(throttled)
  \/ StopStroke
  \/ \E s \in Sockets \ {wsManager.socket}, roomId \in Rooms : OnJoinRoom(s, roomId)
  \/ \E s \in Sockets : OnDisconnect(s)
  \/ \E c \in Sockets : Deliver(c)

SpecStroke == Init /\ [][NextStroke]_vars

----------------------------------------------------------------------------
(* validateDrawingData alone, on the candidates a client can put in a draw *)

P00 == PointObj(Num(0), Num(0))
CandPoints ==
  {[isArray |-> FALSE, elems |-> <<>>],
   [isArray |-> TRUE, elems |-> <<>>],
   [isArray |-> TRUE, elems |-> <<P00>>],
   [isArray |-> TRUE, elems |-> ThreePoints],
   [isArray |-> TRUE, elems |-> <<P00, PointObj(Infinity, Num(1))>>],
   [isArray |-> TRUE, elems |-> <<PointObj(Num(1), NaN)>>],
   [isArray |-> TRUE, elems |-> <<PointObj(Str(<<"1">>), Num(1))>>],
   [isArray |-> TRUE, elems |-> <<P00, PointObj(Num(1), Undefined)>>],
   [isArray |-> TRUE, elems |-> <<PointNull>>],
   [isArray |-> TRUE, elems |-> <<P00, PointPrim>>]}

CandTools == {Str(brush), Str(eraser), Str(<<"p", "e", "n">>), Num(1), Undefined}

CandWidths == {Num(0), Num(1), Num(5), Num(50), Num(51), Num(0 - 3), NaN, Infinity,
               NegInfinity, Str(<<"5">>), Undefined}

ColorZZZZZZ == <<"#", "Z", "Z", "Z", "Z", "Z", "Z">>
ColorAbC123 == <<"#", "A", "b", "C", "1", "2", "3">>

CandColors == {Undefined, Null, Num(5), Str(Color112233), Str(ColorZZZZZZ), Str(ColorAbC123),
               Str(<<"#", "1", "2", "3", "4", "5">>),
               Str(<<"#", "1", "2", "3", "4", "5", "6", "7">>),
               Str(<<"1", "1", "2", "2", "3", "3", "#">>)}

Candidates ==
  {[kind |-> k, points |-> [isArray |-> FALSE, elems |-> <<>>], tool |-> Undefined,
    color |-> Undefined, strokeWidth |-> Undefined] : k \in {"undefined", "null", "string"}}
  \cup
  {[kind |-> "object", points |-> p, tool |-> t, color |-> c, strokeWidth |-> w] :
     p \in CandPoints, t \in CandTools, c \in CandColors, w \in CandWidths}

InitValidate ==
  /\ TabInit
  /\ roomStates = EmptyIndex
  /\ rooms = EmptyIndex
  /\ socketRooms = [s \in Sockets |-> <<>>]
  /\ connected = [s \in Sockets |-> TRUE]
  /\ inbox = [s \in Sockets |-> <<>>]
  /\ wsOperations = [s \in Sockets |-> <<>>]
  /\ wsOperationIndex = [s \in Sockets |-> EmptyIndex]
  /\ nextId = 0
  /\ last = Ran("init", "", "")
  /\ cand \in Candidates
  /\ verdict = ""

Validate ==
  /\ verdict = ""
  /\ verdict' = validateDrawingData(cand)
  /\ last' = Ran("validateDrawingData", "", validateDrawingData(cand))
  /\ UNCHANGED <<serverVars, inbox, clientVars, cand, tabVars>>

NextValidate == Validate

SpecValidate == InitValidate /\ [][NextValidate]_vars

----------------------------------------------------------------------------
(* What the claims are stated in *)

\* The ledger of a room: the room state, empty while none was created
Ledger(rs, roomId) == IF roomId \in DOMAIN rs THEN rs[roomId] ELSE EmptyRoomState

\* Socket t has joined the room
InRoom(t, roomId) == \E i \in DOMAIN socketRooms[t] : socketRooms[t][i] = roomId

\* Section 4.1 of the specification: the candidates validation is to accept
InRange(v, lo, hi) == v.type = "number" /\ v.kind = "finite" /\ lo <= v.val /\ v.val <= hi
FiniteNumber(v) == v.type = "number" /\ v.kind = "finite"
HexColor(v) ==
  /\ v.type = "string"
  /\ Len(v.chars) = 7
  /\ v.chars[1] = "#"
  /\ \A i \in 2..7 : v.chars[i] \in HexDigits

ShouldAccept(data) ==
  /\ data.kind = "object"
  /\ data.points.isArray
  /\ Len(data.points.elems) >= 1
  /\ \A i \in 1..Len(data.points.elems) :
        /\ data.points.elems[i].kind = "object"
        /\ FiniteNumber(data.points.elems[i].x)
        /\ FiniteNumber(data.points.elems[i].y)
  /\ data.tool.type = "string"
  /\ data.tool.chars \in {brush, eraser}
  /\ InRange(data.strokeWidth, 1, 50)
  /\ (data.tool.chars = eraser \/ HexColor(data.color))

----------------------------------------------------------------------------
(* C1 *)

\* C1: index consistency. In every room state reached by addOperation, undo,
\* redo, removeOperation and clearState calls, every id k of operationIndex
\* has operations[operationIndex[k]].id = k, every operation of operations
\* has its own entry, at its own position, and no undone operation has one.
C1_IndexConsistency ==
  \A roomId \in DOMAIN roomStates :
    LET state == roomStates[roomId]
        n == Len(state.operations)
    IN /\ \A k \in DOMAIN state.operationIndex :
            /\ state.operationIndex[k] \in 0..(n - 1)
            /\ state.operations[state.operationIndex[k] + 1].id = k
       /\ \A i \in 1..n :
            /\ state.operations[i].id \in DOMAIN state.operationIndex
            /\ state.operationIndex[state.operations[i].id] = i - 1
       /\ \A i \in 1..Len(state.undoStack) :
            state.undoStack[i].id \notin DOMAIN state.operationIndex

\* An operation was removed from under a later one, whose index moved down,
\* while an undone operation waits in undoStack
C1_Witness ==
  /\ last.kind = "removeOperation"
  /\ \E roomId \in DOMAIN roomStates :
       /\ Len(roomStates[roomId].operations) = 1
       /\ roomStates[roomId].operations[1].id = 2
       /\ roomStates[roomId].operationIndex[2] = 0
       /\ Len(roomStates[roomId].undoStack) = 1

----------------------------------------------------------------------------
(* C10 *)

\* C10: validateDrawingData accepts a candidate exactly when points is a
\* non-empty sequence of points with finite numeric x and y, tool is brush or
\* eraser, strokeWidth is a number within [1, 50], and the tool is eraser or
\* color is '#' and six hex digits.
C10_ValidationPredicate ==
  verdict # "" => (verdict = "true" <=> ShouldAccept(cand))

----------------------------------------------------------------------------
(* C2 *)

\* Every socket has joined this room and nothing the server sent is in flight
AllJoinedAndDelivered(roomId) ==
  /\ \A t \in Sockets : InRoom(t, roomId)
  /\ \A t \in Sockets : inbox[t] = <<>>

\* C2: convergence. When the participants have joined the same room and
\* every event the server sent has been handled, each client's operations
\* list equals the room ledger's operations.
C2_Convergence ==
  \A roomId \in Rooms :
    AllJoinedAndDelivered(roomId) =>
      \A c \in Sockets : wsOperations[c] = Ledger(roomStates, roomId).operations

----------------------------------------------------------------------------
(* C3 *)

\* C3: draw broadcast exclusion. A valid draw of a participant s that joined
\* room R appends exactly one operation, authored by s, to R's ledger, leaves
\* every other room's state alone, appends the draw event carrying that
\* operation to the stream of every other member of R, and sends nothing to s
\* nor to any socket outside R.
C3_DrawBroadcastExclusion ==
  [][\A s \in Sockets, data \in DrawInputs :
       (OnDraw(s, data) /\ ShouldAccept(data) /\ InRoom(s, RoomOf(socketRooms, s))) =>
         LET roomId == RoomOf(socketRooms, s)
             before == Ledger(roomStates, roomId).operations
             after == Ledger(roomStates', roomId).operations
         IN /\ Len(after) = Len(before) + 1
            /\ SubSeq(after, 1, Len(before)) = before
            /\ after[Len(after)].userId = s
            /\ \A other \in Rooms \ {roomId} :
                 Ledger(roomStates', other) = Ledger(roomStates, other)
            /\ inbox'[s] = inbox[s]
            /\ \A t \in Sockets \ {s} :
                 IF InRoom(t, roomId)
                 THEN inbox'[t] = Append(inbox[t], DrawEvent(after[Len(after)]))
                 ELSE inbox'[t] = inbox[t]
    ]_vars

\* s1 drew: the other member of its room holds the draw event, s1 holds nothing
C3_Witness ==
  /\ last = Ran("draw", "s1", "true")
  /\ InRoom("s1", DefaultRoom) /\ InRoom("s2", DefaultRoom)
  /\ inbox["s1"] = <<>>
  /\ Len(inbox["s2"]) = 1
  /\ inbox["s2"][1].type = "draw"
  /\ inbox["s2"][1].operations[1].userId = "s1"
  /\ Len(roomStates[DefaultRoom].operations) = 1

----------------------------------------------------------------------------
(* C4 *)

\* C4: global undo target. An undo intent on a room whose operations is not
\* empty removes exactly the tail of operations, whoever authored it and
\* whoever asks, pushes it on top of undoStack and deletes its index entry,
\* every other operation keeping its position; on an empty operations it
\* returns nothing and the ledger stays as it is.
C4_GlobalUndoTarget ==
  [][\A s \in Sockets :
       OnUndo(s) =>
         LET roomId == RoomOf(socketRooms, s)
             before == Ledger(roomStates, roomId)
             after == Ledger(roomStates', roomId)
             n == Len(before.operations)
         IN IF n = 0
            THEN after = before /\ last'.verdict = "none"
            ELSE /\ after.operations = SubSeq(before.operations, 1, n - 1)
                 /\ after.undoStack = Append(before.undoStack, before.operations[n])
                 /\ DOMAIN after.operationIndex =
                      (DOMAIN before.operationIndex) \ {before.operations[n].id}
                 /\ \A k \in DOMAIN after.operationIndex :
                      after.operationIndex[k] = before.operationIndex[k]
                 /\ last'.verdict = "some"
    ]_vars

\* s2 undid the newer of two operations, one that s1 authored; the older one
\* is still in place
C4_Witness ==
  /\ last = Ran("undo", "s2", "some")
  /\ \E roomId \in DOMAIN roomStates :
       /\ Len(roomStates[roomId].operations) = 1
       /\ roomStates[roomId].operations[1].id = 1
       /\ roomStates[roomId].operationIndex[1] = 0
       /\ Len(roomStates[roomId].undoStack) = 1
       /\ roomStates[roomId].undoStack[1].id = 2
       /\ roomStates[roomId].undoStack[1].userId = "s1"

----------------------------------------------------------------------------
(* C5 *)

\* C5: undo broadcast. When an undo intent removes an operation, the event
\* undo{operationId} with the id of that operation is appended to the stream
\* of every member of the room, the sender as well when it is one, and to no
\* other stream; when operations is empty no stream changes.
C5_UndoBroadcast ==
  [][\A s \in Sockets :
       OnUndo(s) =>
         LET roomId == RoomOf(socketRooms, s)
             before == Ledger(roomStates, roomId).operations
         IN IF Len(before) = 0
            THEN inbox' = inbox
            ELSE \A t \in Sockets :
                   IF InRoom(t, roomId)
                   THEN /\ inbox'[t] = Append(inbox[t], UndoEvent(before[Len(before)].id))
                        /\ before[Len(before)].id
                             \notin {Ledger(roomStates', roomId).operations[i].id :
                                       i \in 1..Len(Ledger(roomStates', roomId).operations)}
                   ELSE inbox'[t] = inbox[t]
    ]_vars

\* s2 undid an operation of s1: both hold the undo event with its id
C5_Witness ==
  /\ last = Ran("undo", "s2", "some")
  /\ InRoom("s1", DefaultRoom) /\ InRoom("s2", DefaultRoom)
  /\ Len(roomStates[DefaultRoom].undoStack) = 1
  /\ roomStates[DefaultRoom].undoStack[1].userId = "s1"
  /\ \A t \in Sockets :
       /\ Len(inbox[t]) = 1
       /\ inbox[t][1] = UndoEvent(roomStates[DefaultRoom].undoStack[1].id)

----------------------------------------------------------------------------
(* C6 *)

\* The operation with this id, wherever a room state holds it
HeldOps(rs) ==
  UNION {{rs[r].operations[i] : i \in 1..Len(rs[r].operations)}
           \cup {rs[r].undoStack[i] : i \in 1..Len(rs[r].undoStack)} : r \in DOMAIN rs}

\* C6: redo. With undoStack not empty a redo intent pops its top, appends
\* that operation at the tail of operations with the index entry of that
\* position, and the event redo{operation} carrying the operation, unchanged,
\* joins the stream of every member of the room, the sender as well; with
\* undoStack empty the ledger and every stream stay as they are. No step
\* changes a field of an operation a ledger holds.
C6_Redo ==
  [][/\ \A s \in Sockets :
          OnRedo(s) =>
            LET roomId == RoomOf(socketRooms, s)
                before == Ledger(roomStates, roomId)
                after == Ledger(roomStates', roomId)
                n == Len(before.undoStack)
            IN IF n = 0
               THEN after = before /\ inbox' = inbox /\ last'.verdict = "none"
               ELSE /\ after.operations = Append(before.operations, before.undoStack[n])
                    /\ after.undoStack = SubSeq(before.undoStack, 1, n - 1)
                    /\ after.operationIndex[before.undoStack[n].id] = Len(before.operations)
                    /\ \A t \in Sockets :
                         IF InRoom(t, roomId)
                         THEN inbox'[t] = Append(inbox[t], RedoEvent(before.undoStack[n]))
                         ELSE inbox'[t] = inbox[t]
     /\ \A a \in HeldOps(roomStates), b \in HeldOps(roomStates') : a.id = b.id => a = b
    ]_vars

\* Two operations were undone and s1 asked for a redo: the one undone last is
\* back at the tail, the other still waits, and both members hold the event
C6_Witness ==
  /\ last = Ran("redo", "s1", "some")
  /\ InRoom("s1", DefaultRoom) /\ InRoom("s2", DefaultRoom)
  /\ Len(roomStates[DefaultRoom].operations) = 1
  /\ roomStates[DefaultRoom].operations[1].id = 1
  /\ Len(roomStates[DefaultRoom].undoStack) = 1
  /\ roomStates[DefaultRoom].undoStack[1].id = 2
  /\ \A t \in Sockets :
       /\ Len(inbox[t]) = 1
       /\ inbox[t][1] = RedoEvent(roomStates[DefaultRoom].operations[1])

----------------------------------------------------------------------------
(* C7 *)

\* C7: append clears redo. Every accepted draw leaves the undoStack of its
\* room empty; an empty undoStack stays empty until an undo intent for that
\* room removes an operation; and a redo intent on a room whose undoStack is
\* empty returns nothing, changes no room state and sends nothing. So a redo
\* after a draw, with no undo in between, reinstates nothing.
C7_AppendClearsRedo ==
  [][/\ \A s \in Sockets, data \in DrawInputs :
          (OnDraw(s, data) /\ ShouldAccept(data)) =>
            Ledger(roomStates', RoomOf(socketRooms, s)).undoStack = <<>>
     /\ \A roomId \in Rooms :
          (/\ Ledger(roomStates, roomId).undoStack = <<>>
           /\ Ledger(roomStates', roomId).undoStack # <<>>) =>
             \E s \in Sockets : OnUndo(s) /\ RoomOf(socketRooms, s) = roomId
     /\ \A s \in Sockets :
          (OnRedo(s) /\ Ledger(roomStates, RoomOf(socketRooms, s)).undoStack = <<>>) =>
            /\ last'.verdict = "none"
            /\ \A roomId \in Rooms : Ledger(roomStates', roomId) = Ledger(roomStates, roomId)
            /\ inbox' = inbox
    ]_vars

\* Operation 1 was undone (s2 has not handled the undo event yet), then
\* operation 2 was drawn, then a redo came: it returned nothing, operation 1
\* is gone for good
C7_Witness ==
  /\ last = Ran("redo", "", "none")
  /\ InRoom("s1", DefaultRoom) /\ InRoom("s2", DefaultRoom)
  /\ inbox["s2"] = <<UndoEvent(1)>>
  /\ Len(roomStates[DefaultRoom].operations) = 1
  /\ roomStates[DefaultRoom].operations[1].id = 2
  /\ roomStates[DefaultRoom].undoStack = <<>>

----------------------------------------------------------------------------
(* C9 *)

----------------------------------------------------------------------------
(* C8 *)

RECURSIVE UndoTimes(_, _, _)
UndoTimes(rs, roomId, k) ==
  IF k = 0 THEN rs ELSE UndoTimes(undo(rs, roomId).states, roomId, k - 1)

RECURSIVE RedoTimes(_, _, _)
RedoTimes(rs, roomId, k) ==
  IF k = 0 THEN rs ELSE RedoTimes(redo(rs, roomId).states, roomId, k - 1)

\* C8: undo/redo round trip. From every room state the ledger reaches, with
\* n operations, and for every k <= n, k undos followed by k redos give back
\* the same operations in the same order, the same index and the same
\* undoStack; after the k undos the k newest operations are out of operations.
C8_UndoRedoRoundTrip ==
  \A roomId \in DOMAIN roomStates :
    \A k \in 0..Len(roomStates[roomId].operations) :
      LET n == Len(roomStates[roomId].operations)
          undone == UndoTimes(roomStates, roomId, k)
          redone == RedoTimes(undone, roomId, k)
      IN /\ undone[roomId].operations = SubSeq(roomStates[roomId].operations, 1, n - k)
         /\ Len(undone[roomId].undoStack) = Len(roomStates[roomId].undoStack) + k
         /\ redone[roomId].operations = roomStates[roomId].operations
         /\ redone[roomId].operationIndex = roomStates[roomId].operationIndex
         /\ redone[roomId].undoStack = roomStates[roomId].undoStack

\* A redo has just put operation 3, undone before, back at the tail: the three
\* operations are in operations in their order, with their index entries, and
\* the undo stack is empty again
C8_Witness ==
  /\ last = Ran("redo", "", "some")
  /\ \E roomId \in DOMAIN roomStates :
       /\ Len(roomStates[roomId].operations) = 3
       /\ \A i \in 1..3 : roomStates[roomId].operations[i].id = i
       /\ \A i \in 1..3 : roomStates[roomId].operationIndex[i] = i - 1
       /\ roomStates[roomId].undoStack = <<>>

----------------------------------------------------------------------------
(* C11 *)

\* C11: validation never raises. For every candidate a client can send,
\* validateDrawingData ends by returning true or false; no error leaves it
\* into the draw handler, which has no try/catch around the call.
C11_ValidationNeverRaises ==
  verdict \in {"", "true", "false"}

----------------------------------------------------------------------------
(* C13 *)

\* The ids a room state holds, those of operations first, then those of undoStack
HeldIds(state) ==
  [i \in 1..(Len(state.operations) + Len(state.undoStack)) |->
     IF i <= Len(state.operations) THEN state.operations[i].id
     ELSE state.undoStack[i - Len(state.operations)].id]

\* C13: no duplicate ids. In every room state the ledger reaches, no id is
\* twice in operations, none is twice in undoStack, and none is in both.
C13_NoDuplicateIds ==
  \A roomId \in DOMAIN roomStates :
    LET ids == HeldIds(roomStates[roomId])
    IN \A i, j \in DOMAIN ids : ids[i] = ids[j] => i = j

\* Two of three operations were undone and a redo has put one of them back:
\* two operations in operations, one in undoStack, three ids
C13_Witness ==
  /\ last = Ran("redo", "", "some")
  /\ \E roomId \in DOMAIN roomStates :
       /\ Len(roomStates[roomId].operations) = 2
       /\ Len(roomStates[roomId].undoStack) = 1
       /\ Cardinality({HeldIds(roomStates[roomId])[i] : i \in 1..3}) = 3

----------------------------------------------------------------------------
(* C12 *)

\* C12: authority stamping. The operation an accepted draw stores has the
\* sender's connection id as userId, the id the server generated for it (not
\* one a ledger already holds) and the server's clock reading as timestamp;
\* whatever the payload carried under id, userId or timestamp is not in it;
\* and the operation broadcast to the other members is that same operation.
C12_AuthorityStamping ==
  [][\A s \in Sockets, data \in StampInputs :
       (OnDraw(s, data) /\ ShouldAccept(data)) =>
         LET roomId == RoomOf(socketRooms, s)
             after == Ledger(roomStates', roomId).operations
             operation == after[Len(after)]
         IN /\ Len(after) = Len(Ledger(roomStates, roomId).operations) + 1
            /\ operation.userId = s
            /\ operation.id = nextId'
            /\ operation.id \notin {held.id : held \in HeldOps(roomStates)}
            /\ operation.timestamp = Now(nextId')
            /\ data.id # 0 => operation.id # data.id
            /\ data.timestamp # 0 => operation.timestamp # data.timestamp
            /\ (data.userId # "" /\ data.userId # s) => operation.userId # data.userId
            /\ \A t \in Members(socketRooms, roomId) \ {s} :
                 inbox'[t][Len(inbox'[t])] = DrawEvent(operation)
    ]_vars

\* s1 sent the payload that names s2 as its author, 99 as its id and -5 as
\* its timestamp: what is stored and what s2 is sent has userId s1, the
\* server's id and the server's timestamp
C12_Witness ==
  /\ last = Ran("draw", "s1", "true")
  /\ InRoom("s1", DefaultRoom) /\ InRoom("s2", DefaultRoom)
  /\ Len(roomStates[DefaultRoom].operations) = 2
  /\ roomStates[DefaultRoom].operations[2].strokeWidth = ForgedStroke.strokeWidth
  /\ roomStates[DefaultRoom].operations[2].userId = "s1"
  /\ roomStates[DefaultRoom].operations[2].id = nextId
  /\ roomStates[DefaultRoom].operations[2].timestamp = Now(nextId)
  /\ inbox["s2"] = <<DrawEvent(roomStates[DefaultRoom].operations[2])>>

----------------------------------------------------------------------------
(* C14 *)

\* C14: room isolation. A draw, undo, redo or clear-canvas intent of a socket
\* whose room is A, with the ledger calls it makes for A, leaves the
\* operations, undoStack and index of every other room B as they are, and
\* sends nothing to a socket that is a member of B and not of A.
C14_RoomIsolation ==
  [][\A s \in Sockets :
       ((\E data \in DrawInputs : OnDraw(s, data)) \/ OnUndo(s) \/ OnRedo(s) \/ OnClearCanvas(s)) =>
         \A B \in Rooms \ {RoomOf(socketRooms, s)} :
           /\ Ledger(roomStates', B) = Ledger(roomStates, B)
           /\ \A t \in Sockets :
                (InRoom(t, B) /\ ~InRoom(t, RoomOf(socketRooms, s))) => inbox'[t] = inbox[t]
    ]_vars

\* s1, in the default room, undid its operation while room-b holds an
\* operation of its member s2: room-b's ledger is as it was and s2 got nothing
C14_Witness ==
  /\ last = Ran("undo", "s1", "some")
  /\ InRoom("s1", DefaultRoom) /\ InRoom("s2", "room-b")
  /\ Len(roomStates[DefaultRoom].undoStack) = 1
  /\ Len(roomStates["room-b"].operations) = 1
  /\ roomStates["room-b"].operations[1].userId = "s2"
  /\ roomStates["room-b"].undoStack = <<>>
  /\ inbox["s1"] = <<UndoEvent(roomStates[DefaultRoom].undoStack[1].id)>>
  /\ inbox["s2"] = <<>>

----------------------------------------------------------------------------
(* C15 *)

\* C15: clear. A clear-canvas intent leaves the room's operations, undoStack
\* and index empty, all three in the one step, whatever they held before; the
\* clear-canvas event, which carries nothing, joins the stream of every member
\* of the room, the sender as well when it is one, and no other stream, also
\* when the ledger was empty already; and an undo or redo intent for that room
\* that comes right after the clear returns nothing, changes no ledger and
\* sends nothing.
C15_Clear ==
  [][/\ \A s \in Sockets :
          OnClearCanvas(s) =>
            LET roomId == RoomOf(socketRooms, s)
            IN /\ Ledger(roomStates', roomId) = EmptyRoomState
               /\ \A t \in Sockets :
                    IF InRoom(t, roomId)
                    THEN inbox'[t] = Append(inbox[t], ClearCanvasEvent)
                    ELSE inbox'[t] = inbox[t]
     /\ \A s \in Sockets :
          (/\ last.kind = "clear-canvas"
           /\ OnUndo(s) \/ OnRedo(s)
           /\ RoomOf(socketRooms, s) = RoomOf(socketRooms, last.sock)) =>
             /\ last'.verdict = "none"
             /\ inbox' = inbox
             /\ \A roomId \in Rooms : Ledger(roomStates', roomId) = Ledger(roomStates, roomId)
    ]_vars

\* s1 cleared a room that never held an operation: both members hold the
\* clear-canvas event
C15_Witness ==
  /\ last = Ran("clear-canvas", "s1", "")
  /\ nextId = 0
  /\ InRoom("s1", DefaultRoom) /\ InRoom("s2", DefaultRoom)
  /\ roomStates[DefaultRoom] = EmptyRoomState
  /\ \A t \in Sockets : inbox[t] = <<ClearCanvasEvent>>

----------------------------------------------------------------------------
(* C16 *)

\* C16: join. A join-room intent appends to the joiner's stream, and to no
\* other, the initial-state event whose operations are the operations of the
\* room's ledger, in their order, none of undoStack among them; appends the
\* user-joined notice naming the joiner to the stream of every other member
\* of the room and to no stream else; and leaves the operations, undoStack
\* and index of every room as they are.
C16_Join ==
  [][\A s \in Sockets, roomId \in Rooms :
       OnJoinRoom(s, roomId) =>
         /\ inbox'[s] = Append(inbox[s],
                               InitialStateEvent(Ledger(roomStates, roomId).operations,
                                                 getUsers(rooms', roomId), rooms'[roomId][s]))
         /\ \A i \in 1..Len(Ledger(roomStates, roomId).undoStack) :
              \A j \in 1..Len(inbox'[s][Len(inbox'[s])].operations) :
                inbox'[s][Len(inbox'[s])].operations[j].id # Ledger(roomStates, roomId).undoStack[i].id
         /\ \A t \in Sockets \ {s} :
              IF InRoom(t, roomId)
              THEN inbox'[t] = Append(inbox[t], UserJoinedEvent(s, rooms'[roomId][s]))
              ELSE inbox'[t] = inbox[t]
         /\ \A r \in Rooms : Ledger(roomStates', r) = Ledger(roomStates, r)
    ]_vars

\* s2 joined a room that holds one operation and one undone operation: its
\* initial-state has the one operation, s1 holds the user-joined notice
C16_Witness ==
  /\ last = Ran("join-room", "s2", "")
  /\ InRoom("s1", DefaultRoom) /\ InRoom("s2", DefaultRoom)
  /\ Len(roomStates[DefaultRoom].operations) = 1
  /\ Len(roomStates[DefaultRoom].undoStack) = 1
  /\ Len(inbox["s2"]) = 1
  /\ inbox["s2"][1].type = "initial-state"
  /\ inbox["s2"][1].operations = roomStates[DefaultRoom].operations
  /\ Len(inbox["s1"]) = 1
  /\ inbox["s1"][1] = UserJoinedEvent("s2", rooms[DefaultRoom]["s2"])

----------------------------------------------------------------------------
(* C17 *)

----------------------------------------------------------------------------
(* C18 *)

\* The ids of the operations, in the order of the sequence
IdsOf(ops) == [i \in 1..Len(ops) |-> ops[i].id]

\* C18: linearization by arrival. Each handler runs to its end before the
\* next intent is taken up: an accepted draw has, in the one step, put its
\* operation behind all operations of the room's ledger and into the stream
\* of every other member. The server numbers the draws it accepts in the
\* order they arrive; with draws only, every ledger holds its draws in
\* ascending arrival number, whoever sent them and whatever timestamp the
\* payload claimed, and every accepted draw is in the ledger of its room.
C18_LinearizationByArrival ==
  [][/\ \A s \in Sockets, data \in StampInputs :
          (OnDraw(s, data) /\ ShouldAccept(data)) =>
            LET roomId == RoomOf(socketRooms, s)
                before == Ledger(roomStates, roomId).operations
                after == Ledger(roomStates', roomId).operations
            IN /\ Len(after) = Len(before) + 1
               /\ SubSeq(after, 1, Len(before)) = before
               /\ after[Len(after)].id = nextId + 1
               /\ after[Len(after)].userId = s
               /\ \A t \in Members(socketRooms, roomId) \ {s} :
                    inbox'[t][Len(inbox'[t])] = DrawEvent(after[Len(after)])
     /\ \A roomId \in Rooms :
          LET ids == IdsOf(Ledger(roomStates', roomId).operations)
          IN \A i, j \in DOMAIN ids : i < j => ids[i] < ids[j]
     /\ \A n \in 1..nextId' :
          \E roomId \in Rooms :
            \E i \in 1..Len(Ledger(roomStates', roomId).operations) :
              Ledger(roomStates', roomId).operations[i].id = n
    ]_vars

\* s1's draw arrived first, then the draw of s2 whose payload claimed the
\* timestamp -5, older than any: the ledger has s1's operation first and the
\* one of s2 behind it
C18_Witness ==
  /\ last = Ran("draw", "s2", "true")
  /\ InRoom("s1", DefaultRoom) /\ InRoom("s2", DefaultRoom)
  /\ IdsOf(roomStates[DefaultRoom].operations) = <<1, 2>>
  /\ roomStates[DefaultRoom].operations[1].userId = "s1"
  /\ roomStates[DefaultRoom].operations[2].userId = "s2"
  /\ roomStates[DefaultRoom].operations[2].strokeWidth = ForgedStroke.strokeWidth
  /\ roomStates[DefaultRoom].operations[2].timestamp > roomStates[DefaultRoom].operations[1].timestamp

----------------------------------------------------------------------------
(* C19 *)

Min(a, b) == IF a < b THEN a ELSE b

\* The n newest operations of ops, the newest first
NewestFirst(ops, n) == [i \in 1..n |-> ops[Len(ops) - i + 1]]

\* From this state, undo intents of k different members of one room arriving
\* together, in whatever order, remove the newest min(k, m) of the room's m
\* operations, the newest first, each once, and every member of the room is
\* sent the same undo events in that same order, one for each operation
\* removed, no two with the same operationId
SimultaneousUndo(rs, sr) ==
  \A roomId \in Rooms, senders \in Bursts :
    (\A i \in DOMAIN senders : senders[i] \in Members(sr, roomId)
                               /\ RoomOf(sr, senders[i]) = roomId) =>
      LET before == Ledger(rs, roomId)
          n == Min(Len(senders), Len(before.operations))
          removed == NewestFirst(before.operations, n)
          st == UndoIntents([states |-> rs, inbox |-> [t \in Sockets |-> <<>>]], sr, senders)
      IN /\ Ledger(st.states, roomId).operations =
              SubSeq(before.operations, 1, Len(before.operations) - n)
         /\ Ledger(st.states, roomId).undoStack = before.undoStack \o removed
         /\ \A i, j \in 1..n : removed[i].id = removed[j].id => i = j
         /\ \A t \in Sockets :
              IF t \in Members(sr, roomId)
              THEN /\ Len(st.inbox[t]) = n
                   /\ \A i \in 1..n : st.inbox[t][i] = UndoEvent(removed[i].id)
              ELSE st.inbox[t] = <<>>

\* C19: simultaneous undo. The undo handler runs to its end for one intent
\* before the next is taken up, and in every state the server reaches, k undo
\* intents of different members arriving together at a room of m operations
\* remove exactly the newest min(k, m), newest first, none twice, with one
\* undo event each, of distinct operationIds, sent to every member in the
\* same order.
C19_SimultaneousUndo ==
  [][/\ \A s \in Sockets :
          OnUndo(s) =>
            LET st == UndoIntent([states |-> roomStates, inbox |-> inbox], socketRooms, s)
            IN roomStates' = st.states /\ inbox' = st.inbox
     /\ SimultaneousUndo(roomStates, socketRooms)
     /\ SimultaneousUndo(roomStates', socketRooms')
    ]_vars

\* Both members asked for an undo, s2 last: the two operations are gone from
\* operations, the newer one first, and both members hold the same undo event
C19_Witness ==
  /\ last = Ran("undo", "s2", "some")
  /\ InRoom("s1", DefaultRoom) /\ InRoom("s2", DefaultRoom)
  /\ roomStates[DefaultRoom].operations = <<>>
  /\ IdsOf(roomStates[DefaultRoom].undoStack) = <<2, 1>>
  /\ \A t \in Sockets : inbox[t] = <<UndoEvent(1)>>

----------------------------------------------------------------------------
(* C20 *)

\* C20: exactly one ledger per room id. A handler that names a room id the
\* state manager has not seen creates the one room state of that id, empty,
\* and no other; a room state, once there, is never taken out of the map and
\* never becomes the empty one again except by a clear-canvas for its room;
\* every socket whose intents go to that room id is handed the same room
\* state without another being created; so the operation of an accepted draw
\* comes behind what the room held and is in the operations every other
\* participant of the room is given.
C20_OneLedgerPerRoom ==
  [][/\ DOMAIN roomStates \subseteq DOMAIN roomStates'
     /\ Cardinality((DOMAIN roomStates') \ (DOMAIN roomStates)) <= 1
     /\ \A roomId \in (DOMAIN roomStates') \ (DOMAIN roomStates) :
          /\ \E s \in Sockets : RoomOf(socketRooms', s) = roomId
          /\ \/ roomStates'[roomId] = EmptyRoomState
             \/ /\ last' = Ran("draw", last'.sock, "true")
                /\ Len(roomStates'[roomId].operations) = 1
                /\ roomStates'[roomId].undoStack = <<>>
     /\ \A roomId \in DOMAIN roomStates :
          (roomStates[roomId] # EmptyRoomState /\ roomStates'[roomId] = EmptyRoomState) =>
            \E s \in Sockets : OnClearCanvas(s) /\ RoomOf(socketRooms, s) = roomId
     /\ \A s \in Sockets, data \in DrawInputs :
          (OnDraw(s, data) /\ ShouldAccept(data)) =>
            LET roomId == RoomOf(socketRooms, s)
                before == Ledger(roomStates, roomId).operations
            IN \A t \in Sockets :
                 RoomOf(socketRooms', t) = roomId =>
                   LET got == getState(roomStates', RoomOf(socketRooms', t))
                   IN /\ got.states = roomStates'
                      /\ Len(got.result.operations) = Len(before) + 1
                      /\ SubSeq(got.result.operations, 1, Len(before)) = before
                      /\ got.result.operations[Len(before) + 1].userId = s
    ]_vars

\* s1 and s2 both came to room-b, a room id not seen before; each drew once:
\* there is the one room state, and it holds the operation of s1 and behind
\* it the operation of s2
C20_Witness ==
  /\ last = Ran("draw", "s2", "true")
  /\ InRoom("s1", "room-b") /\ InRoom("s2", "room-b")
  /\ DOMAIN roomStates = {"room-b"}
  /\ Len(roomStates["room-b"].operations) = 2
  /\ roomStates["room-b"].operations[1].userId = "s1"
  /\ roomStates["room-b"].operations[2].userId = "s2"
  /\ inbox["s1"] = <<DrawEvent(roomStates["room-b"].operations[2])>>

----------------------------------------------------------------------------
(* C21 *)

\* C21: disconnect. When a socket that joined room R disconnects, the
\* user-left event naming it joins the stream of every other member of R,
\* the socket is no longer among the users RoomManager holds for R, and no
\* room's operations, undoStack or index changes.
C21_Disconnect ==
  [][\A s \in Sockets :
       (OnDisconnect(s) /\ Len(socketRooms[s]) > 0) =>
         LET R == socketRooms[s][1]
         IN /\ \A t \in Members(socketRooms, R) \ {s} :
                 inbox'[t] = Append(inbox[t], UserLeftEvent(s))
            /\ s \notin DOMAIN getUsers(rooms', R)
            /\ roomStates' = roomStates
    ]_vars

----------------------------------------------------------------------------
(* C22 *)

\* C22: replay equals ledger. When a client has handled an undo event, which
\* makes it paint its canvas anew from its operations list, and nothing more
\* is on its way to it, the canvas shows what painting the operations of the
\* room's ledger in their order on an empty canvas shows; and every operation
\* the ledger has in operations that this client authored is on the canvas.
C22_ReplayEqualsLedger ==
  [][\A c \in Sockets :
       (Deliver(c) /\ Head(inbox[c]).type = "undo") =>
         LET shown == redrawAll(<<>>, wsOperations'[c])
             ledger == Ledger(roomStates', RoomOf(socketRooms', c)).operations
         IN /\ inbox'[c] = <<>> => shown = redrawAll(<<>>, ledger)
            /\ \A i \in 1..Len(ledger) :
                 ledger[i].userId = c => \E j \in 1..Len(shown) : shown[j] = ledger[i]
    ]_vars

----------------------------------------------------------------------------
(* C29 *)

\* What client c holds
Held(c) == [operations |-> wsOperations[c], operationIndex |-> wsOperationIndex[c]]

\* C29: undo and clear are idempotent at the client. In every state a client
\* reaches, handling undo{operationId} a second time leaves operations and
\* operationIndex as the first time left them, an undo for an id the client
\* does not hold takes nothing out of its list, and handling clear-canvas a
\* second time leaves the empty list and the empty index of the first time.
C29_ClientUndoClearIdempotent ==
  \A c \in Sockets :
    /\ \A operationId \in 0..(MaxOps + 1) :
         /\ handleUndo(handleUndo(Held(c), operationId), operationId)
              = handleUndo(Held(c), operationId)
         /\ (\A i \in 1..Len(wsOperations[c]) : wsOperations[c][i].id # operationId) =>
              handleUndo(Held(c), operationId).operations = wsOperations[c]
         /\ \A i \in 1..Len(handleUndo(Held(c), operationId).operations) :
              handleUndo(Held(c), operationId).operations[i].id # operationId
    /\ handleClearCanvas(handleClearCanvas(Held(c))) = handleClearCanvas(Held(c))
    /\ handleClearCanvas(Held(c)).operations = <<>>

\* s2 was sent two operations of s1 and then the undo of the second, and has
\* handled them all: it holds the first one only
C29_Witness ==
  /\ last = Ran("deliver", "", "")
  /\ InRoom("s1", DefaultRoom) /\ InRoom("s2", DefaultRoom)
  /\ inbox["s2"] = <<>>
  /\ IdsOf(roomStates[DefaultRoom].operations) = <<1>>
  /\ IdsOf(roomStates[DefaultRoom].undoStack) = <<2>>
  /\ roomStates[DefaultRoom].undoStack[1].userId = "s1"
  /\ IdsOf(wsOperations["s2"]) = <<1>>
  /\ DOMAIN wsOperationIndex["s2"] = {1}

----------------------------------------------------------------------------
(* C30 *)

\* C30: duplicate messages are safe. In every state a client reaches,
\* handling the same draw event a second time, or the same redo event,
\* leaves its operations list as handling it once left it, the operation
\* being in the list once.
C30_DuplicateMessagesSafe ==
  \A c \in Sockets :
    \A operation \in HeldOps(roomStates) :
      /\ handleRemoteDraw(handleRemoteDraw(Held(c), operation), operation).operations
           = handleRemoteDraw(Held(c), operation).operations
      /\ handleRedo(handleRedo(Held(c), operation), operation).operations
           = handleRedo(Held(c), operation).operations

----------------------------------------------------------------------------
(* C26 *)

\* C26: idempotent removal. In every state of the ledger and for every room
\* and id, removeOperation called a second time leaves every room state as
\* the first call left it, and a call with an id that no operation ever had
\* leaves the room's operations, undoStack and index as they were.
C26_IdempotentRemoval ==
  \A roomId \in Rooms, operationId \in LedgerIds :
    LET once == removeOperation(roomStates, roomId, operationId).states
        twice == removeOperation(once, roomId, operationId).states
    IN /\ DOMAIN twice = DOMAIN once
       /\ \A r \in DOMAIN once : twice[r] = once[r]
       /\ operationId \notin 1..nextId => once[roomId] = Ledger(roomStates, roomId)

----------------------------------------------------------------------------
(* C27 *)

\* C27: unknown references are not found. In every state of the ledger,
\* getOperation and removeOperation called with a room that has no ledger
\* yet, or with an id that is not in the room's operations, leave the
\* operations, undoStack and index of every existing room as they were and
\* getOperation returns no operation; and getOperation returns an operation,
\* the one of that id, exactly when the id is in operations.
C27_UnknownNotFound ==
  \A roomId \in Rooms, operationId \in LedgerIds :
    LET held == IdsOf(Ledger(roomStates, roomId).operations)
        present == \E i \in 1..Len(held) : held[i] = operationId
        got == getOperation(roomStates, roomId, operationId)
        removed == removeOperation(roomStates, roomId, operationId)
    IN /\ ~present =>
            /\ got.result = <<>>
            /\ \A r \in DOMAIN roomStates :
                 got.states[r] = roomStates[r] /\ removed.states[r] = roomStates[r]
       /\ present <=> got.value = "operation"
       /\ present => got.result[1].id = operationId

----------------------------------------------------------------------------
(* C28 *)

\* C28: removeOperation of a present id. In every state of the ledger and
\* for every operation at position p of a room's operations, removeOperation
\* with its id leaves operations without that one entry and otherwise in the
\* same order, gives every operation that was after it an index one lower
\* and every operation before it its old index, leaves undoStack and the
\* other rooms as they were, and an undo that follows takes out the last of
\* the remaining operations.
C28_RemovePresent ==
  \A roomId \in DOMAIN roomStates :
    LET state == roomStates[roomId]
        n == Len(state.operations)
    IN \A p \in 1..n :
         LET removed == removeOperation(roomStates, roomId, state.operations[p].id).states
             after == removed[roomId]
             undone == undo(removed, roomId)
         IN /\ after.operations =
                 [j \in 1..(n - 1) |-> IF j < p THEN state.operations[j]
                                       ELSE state.operations[j + 1]]
            /\ after.undoStack = state.undoStack
            /\ DOMAIN after.operationIndex = {state.operations[j].id : j \in 1..n}
                                               \ {state.operations[p].id}
            /\ \A j \in 1..n :
                 /\ j < p => after.operationIndex[state.operations[j].id]
                               = state.operationIndex[state.operations[j].id]
                 /\ j > p => after.operationIndex[state.operations[j].id]
                               = state.operationIndex[state.operations[j].id] - 1
            /\ \A r \in DOMAIN roomStates \ {roomId} : removed[r] = roomStates[r]
            /\ n > 1 =>
                 /\ undone.result = <<after.operations[n - 1]>>
                 /\ undone.states[roomId].operations = SubSeq(after.operations, 1, n - 2)
            /\ n = 1 => undone.result = <<>>

\* The first of three operations of the default room was removed by its id:
\* the two after it moved down by one
C28_Witness ==
  /\ last = Ran("removeOperation", "", "present")
  /\ DefaultRoom \in DOMAIN roomStates
  /\ IdsOf(roomStates[DefaultRoom].operations) = <<2, 3>>
  /\ roomStates[DefaultRoom].operationIndex[2] = 0
  /\ roomStates[DefaultRoom].operationIndex[3] = 1

----------------------------------------------------------------------------
(* C25 *)

\* C25: unique user colors. After any sequence of addUser and removeUser
\* calls, with never more than 12 users in a room, no two users that are in
\* a room together have the same color.
C25_UniqueUserColors ==
  \A roomId \in DOMAIN rooms :
    Cardinality(DOMAIN rooms[roomId]) <= NumColors =>
      \A u, v \in DOMAIN rooms[roomId] : u # v => rooms[roomId][u] # rooms[roomId][v]

----------------------------------------------------------------------------
(* C23 *)

\* A step in which the server adds an operation to a ledger
Submitted == nextId' = nextId + 1

\* A step in which a stroke of the tab ends
StrokeEnds == isDrawing /\ ~isDrawing'

\* The operation a Submitted step adds
NewOperation ==
  LET ops == roomStates'[RoomOf(socketRooms, wsManager.socket)].operations
  IN ops[Len(ops)]

\* What both readings of C23 share: a draw reaches the ledger only in a step
\* that ends a stroke; that step leaves the tab without a stroke and without
\* a path, so no second draw can follow for the same stroke; the operation
\* holds all the points of the stroke, from the first to the last, at least
\* one; and a stroke begins with the one point of the pointer-down.
CompleteStrokesOnly ==
  /\ Submitted =>
       /\ StrokeEnds
       /\ ~canvasManager'.isDrawing /\ canvasManager'.currentPath = <<>>
       /\ Len(canvasManager.currentPath) >= 1
       /\ NewOperation.points = canvasManager.currentPath
       /\ NewOperation.id = nextId'
  /\ (~isDrawing /\ isDrawing') => Len(canvasManager'.currentPath) = 1
  /\ isDrawing' = canvasManager'.isDrawing

\* C23, as stated: only complete strokes are submitted, at the end of the
\* stroke, at most once for a stroke and with at least one point; and when
\* the tab's connection went down in the middle of a stroke, no operation,
\* partial or whole, is added for that stroke.
C23_OnlyCompleteStrokes ==
  [][/\ CompleteStrokesOnly
     /\ (StrokeEnds /\ stroke.dropped) => (nextId' = nextId /\ roomStates' = roomStates)
    ]_vars

\* C23, amended: only complete strokes are submitted, at the end of the
\* stroke, at most once for a stroke and with at least one point; a stroke
\* that ends while the tab is disconnected adds no operation, and what is
\* added for a stroke the connection went down under and came back under is
\* the whole stroke, never a part of it.
C23_OnlyCompleteStrokes_Amended ==
  [][/\ CompleteStrokesOnly
     /\ (StrokeEnds /\ ~wsManager.connected) => (nextId' = nextId /\ roomStates' = roomStates)
     /\ (StrokeEnds /\ stroke.dropped /\ Submitted) =>
          NewOperation.points = canvasManager.currentPath
    ]_vars

\* The tab drew one whole stroke of three points, which the ledger holds;
\* its connection went down under the second stroke, which ended while the
\* tab was disconnected and added nothing
C23_Witness ==
  /\ last = Ran("mouseup", "", "none")
  /\ stroke.dropped /\ ~wsManager.connected /\ ~isDrawing
  /\ nextId = 1
  /\ DefaultRoom \in DOMAIN roomStates
  /\ Len(roomStates[DefaultRoom].operations) = 1
  /\ roomStates[DefaultRoom].operations[1].points = ThreePoints

----------------------------------------------------------------------------
(* C24 *)

\* Draw events of the tab's current stroke that client t was sent: the ones
\* still in its stream and the ones it has handled
SentOfStroke(t) ==
  {i \in 1..Len(inbox[t]) : inbox[t][i].type = "draw"
                              /\ inbox[t][i].operations[1].id > stroke.startId}
    \cup {0 - i : i \in {j \in 1..Len(wsOperations[t]) : wsOperations[t][j].id > stroke.startId}}

\* C24: real-time drawing. When a stroke of two or more points ends that the
\* tab drew connected from its first point on, every other connected client
\* that was in the tab's room when the stroke began, and still is, has been
\* sent a draw event for the stroke before that step, while it was in
\* progress.
C24_RealTimeDrawing ==
  [][(/\ StrokeEnds
      /\ Len(canvasManager.currentPath) >= 2
      /\ wsManager.connected /\ ~stroke.dropped
      /\ connected[wsManager.socket]) =>
       \A t \in stroke.watchers \cap Members(socketRooms, RoomOf(socketRooms, wsManager.socket)) :
         connected[t] => SentOfStroke(t) # {}
    ]_vars

----------------------------------------------------------------------------
(* C31 *)

\* What a client holds once it has handled the events of its stream
RECURSIVE HandleAll(_, _)
HandleAll(ws, events) ==
  IF events = <<>> THEN ws ELSE HandleAll(Dispatch(ws, Head(events)), Tail(events))

\* The operations of ops that participant P did not author
OfOthers(ops, P) == SelectSeq(ops, LAMBDA op : op.userId # P)

\* The events of the given type that a step adds to the stream of P
NewEvents(P, type) ==
  LET kept == IF Len(inbox'[P]) >= Len(inbox[P]) /\ SubSeq(inbox'[P], 1, Len(inbox[P])) = inbox[P]
              THEN Len(inbox[P]) ELSE Len(inbox[P]) - 1
  IN SelectSeq(SubSeq(inbox'[P], kept + 1, Len(inbox'[P])), LAMBDA e : e.type = type)

\* C31: join is atomic with respect to the log. The step in which P joins
\* room R sends P one snapshot, holding exactly the operations of R's ledger
\* at that step (all that were accepted and not undone or cleared before),
\* and no draw event; an accepted draw of another participant sends P one
\* draw event when P is a member of the room at that step and none when it is
\* not, and its operation, new at that step, is in no snapshot sent before;
\* no other step sends P a snapshot or a draw event. So in every state, once
\* P has handled what was sent to it, the operations of others it holds are
\* those of R's ledger, each once, in the ledger's order.
C31_JoinAtomic ==
  /\ [](\A P \in Sockets :
          Len(socketRooms[P]) > 0 =>
            OfOthers(HandleAll(Held(P), inbox[P]).operations, P)
              = OfOthers(Ledger(roomStates, socketRooms[P][1]).operations, P))
  /\ [][\A P \in Sockets :
          LET joins == Len(socketRooms[P]) = 0 /\ Len(socketRooms'[P]) > 0
              drawn == nextId' = nextId + 1 /\ last'.sock # P
          IN /\ joins =>
                  /\ Len(NewEvents(P, "initial-state")) = 1
                  /\ NewEvents(P, "initial-state")[1].operations
                       = Ledger(roomStates, socketRooms'[P][1]).operations
                  /\ Ledger(roomStates', socketRooms'[P][1]).operations
                       = Ledger(roomStates, socketRooms'[P][1]).operations
             /\ ~joins => NewEvents(P, "initial-state") = <<>>
             /\ drawn =>
                  LET R == RoomOf(socketRooms, last'.sock)
                      ops == roomStates'[R].operations
                  IN /\ ops[Len(ops)].id = nextId'
                     /\ NewEvents(P, "draw") =
                          IF InRoom(P, R) THEN <<DrawEvent(ops[Len(ops)])>> ELSE <<>>
             /\ ~drawn => NewEvents(P, "draw") = <<>>
       ]_vars

\* s2 has joined the default room after s1's first operation was accepted:
\* its snapshot, not yet handled, holds that operation
C31_Witness ==
  /\ last = Ran("join-room", "s2", "")
  /\ InRoom("s1", DefaultRoom)
  /\ IdsOf(roomStates[DefaultRoom].operations) = <<1>>
  /\ roomStates[DefaultRoom].operations[1].userId = "s1"
  /\ Len(inbox["s2"]) = 1
  /\ inbox["s2"][1].type = "initial-state"
  /\ IdsOf(inbox["s2"][1].operations) = <<1>>

----------------------------------------------------------------------------
(* C34 *)

\* C34: client index consistency. On every client, in every state, the keys
\* of operationIndex are the ids of the operations in its operations list.
C34_ClientIndexConsistency ==
  \A c \in Sockets :
    DOMAIN wsOperationIndex[c] = {wsOperations[c][i].id : i \in 1..Len(wsOperations[c])}

----------------------------------------------------------------------------
(* C32 *)

\* The operations of a room state and, behind them, its undone operations
\* from the one undone last to the one undone first
History(state) ==
  state.operations
    \o [i \in 1..Len(state.undoStack) |-> state.undoStack[Len(state.undoStack) + 1 - i]]

\* C32: history order. In every state of every room, operations followed by
\* undoStack reversed is strictly increasing in the order in which the
\* server took the draws in (the number of the draw, which is its id here,
\* and never decreasing in timestamp): operations holds no later draw before
\* an earlier one, and every undone operation was drawn after every
\* operation in operations.
C32_HistoryOrder ==
  \A roomId \in DOMAIN roomStates :
    LET h == History(roomStates[roomId])
        state == roomStates[roomId]
    IN /\ \A i, j \in 1..Len(h) :
            i < j => (h[i].id < h[j].id /\ h[i].timestamp <= h[j].timestamp)
       /\ \A i \in 1..Len(state.undoStack), j \in 1..Len(state.operations) :
            state.operations[j].id < state.undoStack[i].id

\* Of three draws of a room the last two were undone, the third first
C32_Witness ==
  /\ last.kind = "undo"
  /\ DefaultRoom \in DOMAIN roomStates
  /\ IdsOf(roomStates[DefaultRoom].operations) = <<1>>
  /\ IdsOf(roomStates[DefaultRoom].undoStack) = <<3, 2>>

----------------------------------------------------------------------------
(* C33 *)

\* The handler that ran in a step was sent by a socket whose room is R
IntentFor(R) == last'.sock # "" /\ RoomOf(socketRooms, last'.sock) = R

\* C33: redo availability. The length of a room's undoStack is the number of
\* successful undos less the number of successful redos since the last
\* accepted draw or clear-canvas of the room, or since the room began: an
\* accepted draw and a clear-canvas leave it 0, a successful undo makes it
\* one more, a successful redo one less, and every other step (a failed undo
\* or redo, a draw that fails validation, a join, a cursor move, a
\* disconnect, a client handling an event) leaves it as it was in every
\* room; and a redo intent succeeds exactly when it is positive.
C33_RedoAvailability ==
  [][/\ \A R \in Rooms :
          LET before == Len(Ledger(roomStates, R).undoStack)
              after == Len(Ledger(roomStates', R).undoStack)
          IN CASE last'.kind = "draw" /\ last'.verdict = "true" /\ IntentFor(R) -> after = 0
               [] last'.kind = "clear-canvas" /\ IntentFor(R) -> after = 0
               [] last'.kind = "undo" /\ last'.verdict = "some" /\ IntentFor(R) ->
                    after = before + 1
               [] last'.kind = "redo" /\ last'.verdict = "some" /\ IntentFor(R) ->
                    before > 0 /\ after = before - 1
               [] OTHER -> after = before
     /\ \A s \in Sockets :
          OnRedo(s) =>
            /\ last'.kind = "redo"
            /\ last'.verdict = "some"
                 <=> Len(Ledger(roomStates, RoomOf(socketRooms, s)).undoStack) > 0
    ]_vars

\* Two operations were undone and one of them redone: one redo is left
C33_Witness ==
  /\ last = Ran("redo", "s1", "some")
  /\ DefaultRoom \in DOMAIN roomStates
  /\ Len(roomStates[DefaultRoom].operations) = 1
  /\ Len(roomStates[DefaultRoom].undoStack) = 1
  /\ InRoom("s1", DefaultRoom)

----------------------------------------------------------------------------
(* C35 *)

\* A step in which socket s sends a draw, undo, redo or clear-canvas intent
SendsIntent(s) ==
  \/ \E data \in DrawInputs : OnDraw(s, data)
  \/ OnUndo(s)
  \/ OnRedo(s)
  \/ OnClearCanvas(s)

\* C35: no mutation without membership. A draw, undo, redo or clear-canvas
\* intent of a socket that has joined no room leaves the operations,
\* undoStack and index of every room as they were and adds no event to the
\* stream of any socket.
C35_NoMutationWithoutMembership ==
  [][\A s \in Sockets :
       (SendsIntent(s) /\ Len(socketRooms[s]) = 0) =>
         /\ \A R \in Rooms : Ledger(roomStates', R) = Ledger(roomStates, R)
         /\ inbox' = inbox
    ]_vars

----------------------------------------------------------------------------
(* C36 *)

\* The room a socket joined last
LatestRoom(s) == socketRooms[s][Len(socketRooms[s])]

\* C36: intents follow the latest join. When a socket that joined room A and
\* later room B sends a draw, undo, redo or clear-canvas intent, the ledger
\* of every room but B stays as it was, B's ledger is what the call of the
\* handler makes of it, and the event goes to members of B and to no one
\* else.
C36_IntentsFollowLatestJoin ==
  [][\A s \in Sockets :
       (Len(socketRooms[s]) >= 2 /\ (OnDraw(s, BrushStroke) \/ OnUndo(s) \/ OnRedo(s) \/ OnClearCanvas(s))) =>
         LET B == LatestRoom(s)
         IN /\ \A R \in Rooms \ {B} : Ledger(roomStates', R) = Ledger(roomStates, R)
            /\ \A t \in Sockets \ Members(socketRooms, B) : inbox'[t] = inbox[t]
            /\ Ledger(roomStates', B) \in
                 {addOperation(roomStates, B, Stamp(BrushStroke, s, nextId + 1)).states[B],
                  undo(roomStates, B).states[B],
                  redo(roomStates, B).states[B],
                  clearState(roomStates, B).states[B]}
    ]_vars

====
